---- MODULE Spec2Model ----
(***************************************************************************)
(* Clinica-Veterinaria: the appointment (Cita) entity, its lifecycle, the  *)
(* overlap detection and the scheduling service (CitaService) on top of    *)
(* the repositories, the creation of invoices (FacturaService) from        *)
(* completed appointments, their lines, amounts and payment, and the       *)
(* registry of clients (ClienteService).                                   *)
(*                                                                         *)
(* Amounts are decimal.Decimal values: a sign, the digits of the           *)
(* coefficient and an exponent, rounded as the default context rounds.     *)
(*                                                                         *)
(* Time is counted in minutes since midnight of day 0; a calendar date is  *)
(* the quotient by MinutosDia.  Texts are sequences of one-character       *)
(* strings so that strip() and len() are computed, not assumed.            *)
(***************************************************************************)
EXTENDS Integers, Sequences, FiniteSets, TLC

(***************************************************************************)
(* Bounds of the model                                                     *)
(***************************************************************************)
MaxCitas == 2
MaxCitasCiclo == 1
MaxTicks == 1
MaxLineas == 2
MaxClientes == 3

(***************************************************************************)
(* Program constants                                                       *)
(***************************************************************************)
MinutosDia == 1440
MaxDuracion == 480
DuracionDefecto == 30
IdNone == 0

(***************************************************************************)
(* Texts                                                                   *)
(***************************************************************************)
None == <<"None">>

Espacio == " "

RECURSIVE lstrip(_)
lstrip(s) == IF s # <<>> /\ Head(s) = Espacio THEN lstrip(Tail(s)) ELSE s

RECURSIVE rstrip(_)
rstrip(s) ==
    IF s # <<>> /\ s[Len(s)] = Espacio THEN rstrip(SubSeq(s, 1, Len(s) - 1)) ELSE s

strip(s) == rstrip(lstrip(s))

\* Python truthiness of an Optional[str]: None and "" are falsy
Falsy(s) == s = None \/ s = <<>>

\* the idiom `not x or len(x.strip()) < n` used by every text validation
TextoCorto(s, n) == Falsy(s) \/ Len(strip(s)) < n

(***************************************************************************)
(* EstadoCita                                                              *)
(***************************************************************************)
PROGRAMADA == "Programada"
COMPLETADA == "Completada"
CANCELADA == "Cancelada"
EN_CURSO == "En curso"
EstadoCita == {PROGRAMADA, COMPLETADA, CANCELADA, EN_CURSO}

(***************************************************************************)
(* decimal.Decimal under the default context                               *)
(*                                                                         *)
(* A Decimal is a sign, the digits of its coefficient (most significant    *)
(* first) and an exponent.  Python compares Decimals by value, so the      *)
(* records are kept without leading or trailing zeros: two records are     *)
(* equal exactly when the Decimals compare equal.  The constructor is      *)
(* exact; every arithmetic operation computes the exact result and rounds  *)
(* it to Precision significant digits, ties to the even digit.             *)
(***************************************************************************)
Precision == 28

Ceros(n) == [k \in 1 .. n |-> 0]

\* the positions of d that hold a digit other than 0
NoCeros(d) == {i \in 1 .. Len(d) : d[i] # 0}

\* d without its leading zeros, and the number of zeros d ends with
QuitarCerosIzquierda(d) ==
    IF NoCeros(d) = {} THEN <<>>
    ELSE SubSeq(d, CHOOSE i \in NoCeros(d) : \A j \in NoCeros(d) : i <= j, Len(d))

CerosDerecha(d) ==
    IF NoCeros(d) = {} THEN Len(d)
    ELSE Len(d) - CHOOSE i \in NoCeros(d) : \A j \in NoCeros(d) : j <= i

\* the digits of a natural number
RECURSIVE cifras(_)
cifras(n) == IF n < 10 THEN <<n>> ELSE Append(cifras(n \div 10), n % 10)

\* the digit of d at position i counted from the right, 0 beyond its length
Cifra(d, i) == IF i <= Len(d) THEN d[Len(d) + 1 - i] ELSE 0

\* addition of two digit sequences: position i receives a carry when a lower
\* position overflows and every position between them holds a 9
SumaNat(a, b) ==
    LET n == (IF Len(a) < Len(b) THEN Len(b) ELSE Len(a)) + 1
        s(i) == Cifra(a, i) + Cifra(b, i)
        lleva(i) ==
            \E j \in 1 .. i - 1 : s(j) >= 10 /\ \A k \in j + 1 .. i - 1 : s(k) = 9
    IN  QuitarCerosIzquierda(
            [i \in 1 .. n |-> (s(n + 1 - i) + IF lleva(n + 1 - i) THEN 1 ELSE 0) % 10])

\* a digit sequence times one digit, by doubling
RECURSIVE PorCifra(_, _)
PorCifra(a, k) ==
    IF k = 0 THEN <<>>
    ELSE IF k = 1 THEN a
    ELSE LET mitad == PorCifra(a, k \div 2)
         IN  IF k % 2 = 0 THEN SumaNat(mitad, mitad)
             ELSE SumaNat(SumaNat(mitad, mitad), a)

\* multiplication of two digit sequences, the second split in halves
RECURSIVE ProductoNat(_, _)
ProductoNat(a, b) ==
    IF b = <<>> THEN <<>>
    ELSE IF Len(b) = 1 THEN PorCifra(a, b[1])
    ELSE LET m == Len(b) \div 2
         IN  SumaNat(ProductoNat(a, SubSeq(b, 1, Len(b) - m)) \o Ceros(m),
                     ProductoNat(a, SubSeq(b, Len(b) - m + 1, Len(b))))

\* a < b for digit sequences without leading zeros, or of the same length
MenorNat(a, b) ==
    \/ Len(a) < Len(b)
    \/ /\ Len(a) = Len(b)
       /\ \E k \in 1 .. Len(a) :
            a[k] < b[k] /\ \A j \in 1 .. k - 1 : a[j] = b[j]

\* Decimal(...): the exact value neg, dig * 10^exp.  Here and below an
\* operand is bound as the element of a singleton so that it is computed
\* once, before the digits are worked on.
Decimal(neg, dig, exp) ==
    CHOOSE r \in {IF d = <<>> THEN [neg |-> FALSE, dig |-> <<>>, exp |-> 0]
                  ELSE [neg |-> neg,
                        dig |-> SubSeq(d, 1, Len(d) - CerosDerecha(d)),
                        exp |-> exp + CerosDerecha(d)] :
                  d \in {QuitarCerosIzquierda(dig)}} : TRUE

\* Decimal(str(n)) of an int
DecimalDeEntero(n) == Decimal(n < 0, cifras(IF n < 0 THEN 0 - n ELSE n), 0)

Cero == Decimal(FALSE, <<>>, 0)
Cien == DecimalDeEntero(100)

\* the rounding of a value of more than Precision digits (ROUND_HALF_EVEN)
Redondeado(x) ==
    LET cabeza == SubSeq(x.dig, 1, Precision)
        resto == SubSeq(x.dig, Precision + 1, Len(x.dig))
        mitad == <<5>> \o Ceros(Len(resto) - 1)
        sube == \/ MenorNat(mitad, resto)
                \/ resto = mitad /\ cabeza[Precision] % 2 = 1
    IN  Decimal(x.neg, IF sube THEN SumaNat(cabeza, <<1>>) ELSE cabeza,
                x.exp + Len(resto))

\* the context's rounding of an exact result
redondear(a) ==
    CHOOSE r \in {IF Len(x.dig) <= Precision THEN x ELSE Redondeado(x) : x \in {a}} :
        TRUE

\* the coefficient of x written at the exponent e <= x.exp
Alineado(x, e) == x.dig \o Ceros(x.exp - e)

MenorExp(a, b) == IF a.exp < b.exp THEN a.exp ELSE b.exp

\* the mathematical sum of two Decimals of the same sign
suma_exacta(a, b) ==
    CHOOSE r \in {Decimal(x.neg \/ y.neg,
                          SumaNat(Alineado(x, MenorExp(x, y)), Alineado(y, MenorExp(x, y))),
                          MenorExp(x, y)) :
                  x \in {a}, y \in {b}} : TRUE

\* the mathematical product
producto_exacto(a, b) ==
    CHOOSE r \in {Decimal(x.neg # y.neg, ProductoNat(x.dig, y.dig), x.exp + y.exp) :
                  x \in {a}, y \in {b}} : TRUE

\* a + b, a * b and a / Decimal('100') as Python evaluates them
sumar(a, b) == redondear(suma_exacta(a, b))
multiplicar(a, b) == redondear(producto_exacto(a, b))
entre_cien(a) == redondear(Decimal(a.neg, a.dig, a.exp - 2))

\* a < 0, and a > b for two Decimals that are not negative
es_negativo(a) == a.neg
mayor_que(a, b) ==
    MenorNat(QuitarCerosIzquierda(Alineado(b, MenorExp(a, b))),
             QuitarCerosIzquierda(Alineado(a, MenorExp(a, b))))

(***************************************************************************)
(* Inputs the callers may supply                                           *)
(***************************************************************************)
VetX == <<"D", "r", "X">>
VetY == <<"D", "r", "Y">>
Veterinarios == {VetX, VetY}
Horas == {1395, 1410, 1425, 1440}
\* the hours used where only the lifecycle of an appointment is followed
HorasCiclo == {1395, 1410}
\* two hours, back to back, for the appointments that are invoiced
HorasFactura == {1395, 1425}
Duraciones == {DuracionDefecto}
MotivoOk == <<"v", "a", "c", "u", "n", "a">>
Motivos == {MotivoOk, <<"a", "b", " ">>}
DiagOk == <<"o", "t", "i", "t", "i", "s">>
Diagnosticos == {None, <<" ", "a", " ">>, DiagOk}
TratOk == <<"r", "e", "p", "o", "s", "o">>
Tratamientos == {None, TratOk}
CancelOk == <<"v", "i", "a", "j", "e">>
MotivosCancelacion == {None, <<"n", " ">>, CancelOk}
\* one invoice line as the caller gives it: 1 x 25 at 21%
LineaOk ==
    [concepto |-> <<"c", "u", "r", "a">>, cantidad |-> 1,
     precio_unitario |-> DecimalDeEntero(25), iva_porcentaje |-> DecimalDeEntero(21)]
\* lines that are wrong in one field each: quantity 0, a concept of two
\* characters, a price of -1, a tax of -1 and a tax of 100.1
LineaSinCantidad == [LineaOk EXCEPT !.cantidad = 0]
LineaConceptoCorto == [LineaOk EXCEPT !.concepto = <<"a", "b", " ">>]
LineaPrecioNegativo == [LineaOk EXCEPT !.precio_unitario = DecimalDeEntero(0 - 1)]
LineaIvaNegativo == [LineaOk EXCEPT !.iva_porcentaje = DecimalDeEntero(0 - 1)]
LineaIvaExcesivo == [LineaOk EXCEPT !.iva_porcentaje = Decimal(FALSE, <<1, 0, 0, 1>>, 0 - 1)]
\* valid lines whose amounts have many digits: 2 x 50.00 at 21%, 1 x 1E+28 at
\* 0%, 1 x 3 at 100%, and 1 x 0.30000000000000004 at 21.000000000000004%
LineaEjemplo ==
    [LineaOk EXCEPT !.cantidad = 2,
                    !.precio_unitario = Decimal(FALSE, <<5, 0, 0, 0>>, 0 - 2)]
LineaGrande ==
    [LineaOk EXCEPT !.precio_unitario = Decimal(FALSE, <<1>>, 28),
                    !.iva_porcentaje = Cero]
LineaTres ==
    [LineaOk EXCEPT !.precio_unitario = DecimalDeEntero(3), !.iva_porcentaje = Cien]
LineaFina ==
    [LineaOk EXCEPT
        !.precio_unitario = Decimal(FALSE, <<3>> \o Ceros(15) \o <<4>>, 0 - 17),
        !.iva_porcentaje = Decimal(FALSE, <<2, 1>> \o Ceros(14) \o <<4>>, 0 - 15)]
LineasObjeto == {LineaOk, LineaEjemplo, LineaGrande, LineaTres, LineaFina}
LineasData ==
    {<<>>, <<LineaOk>>, <<LineaOk, LineaSinCantidad>>, <<LineaConceptoCorto>>,
     <<LineaPrecioNegativo, LineaOk>>, <<LineaIvaNegativo>>,
     <<LineaOk, LineaIvaExcesivo>>}
\* the methods of payment a caller names: the three that are accepted, none
\* and one that is not accepted
MetodoBizum == <<"B", "i", "z", "u", "m">>
\* the clock starts at the earliest hour a caller may ask for and advances in
\* steps of half the default duration
RelojInicial == MinutosDia - 45
PasoReloj == DuracionDefecto \div 2

\* the value of objeto while the caller holds no Factura
SinObjeto == [numero_factura |-> None]

\* the tables clientes, mascotas, citas and facturas, the wall clock, the outcome
\* of the last call, the scheduling requests that passed their checks and
\* have not yet reached the insert, and the Factura object a caller holds in
\* memory
VARIABLES clientes, mascotas, citas, facturas, ahora, ultima, en_vuelo, objeto

vars == <<clientes, mascotas, citas, facturas, ahora, ultima, en_vuelo, objeto>>

ClienteIds == 1 .. Len(clientes) + 1
MascotaIds == 1 .. Len(mascotas) + 1
CitaIds == 1 .. Len(citas) + 1

(***************************************************************************)
(* Cita (domain entity)                                                    *)
(***************************************************************************)
\* mutant: the start must be in the future also for a stored appointment
validar_siempre_futura(c, now) ==
    /\ c.cliente_id > 0
    /\ c.mascota_id > 0
    /\ ~TextoCorto(c.veterinario_nombre, 2)
    /\ ~(c.fecha_hora < now)
    /\ ~TextoCorto(c.motivo, 3)
    /\ c.estado \in EstadoCita
    /\ ~(c.duracion_minutos <= 0 \/ c.duracion_minutos > MaxDuracion)
    /\ ~(c.estado = CANCELADA /\ Falsy(c.motivo_cancelacion))

\* Cita.validar: TRUE when no ValueError is raised
validar(c, now) ==
    /\ c.cliente_id > 0
    /\ c.mascota_id > 0
    /\ ~TextoCorto(c.veterinario_nombre, 2)
    /\ ~(c.id = IdNone /\ c.fecha_hora < now)
    /\ ~TextoCorto(c.motivo, 3)
    /\ c.estado \in EstadoCita
    /\ ~(c.duracion_minutos <= 0 \/ c.duracion_minutos > MaxDuracion)
    /\ ~(c.estado = CANCELADA /\ Falsy(c.motivo_cancelacion))

\* Optional[datetime] = None of fecha_modificacion
SinFecha == IdNone - 1

\* the dataclass constructor with its defaults (validation is done by the caller
\* of NuevaCita through validar, as __post_init__ does)
NuevaCita(cliente_id, mascota_id, vet, fecha_hora, motivo, dur, obs, now) ==
    [id |-> IdNone, cliente_id |-> cliente_id, mascota_id |-> mascota_id,
     veterinario_nombre |-> vet, fecha_hora |-> fecha_hora, motivo |-> motivo,
     estado |-> PROGRAMADA, duracion_minutos |-> dur, observaciones |-> obs,
     diagnostico |-> None, tratamiento |-> None, motivo_cancelacion |-> None,
     fecha_creacion |-> now, fecha_modificacion |-> SinFecha]

Raise(c) == [raised |-> TRUE, cita |-> c]
Return(c) == [raised |-> FALSE, cita |-> c]

\* mutant: an appointment is completed once
completar_una_vez(c, diagnostico, tratamiento, now) ==
    IF c.estado \in {CANCELADA, COMPLETADA} THEN Raise(c)
    ELSE IF TextoCorto(diagnostico, 3) THEN Raise(c)
    ELSE Return([c EXCEPT !.estado = COMPLETADA,
                          !.diagnostico = diagnostico,
                          !.tratamiento = tratamiento,
                          !.fecha_modificacion = now])

\* mutant: the check of the cancelled state is missing
completar_sin_guarda(c, diagnostico, tratamiento, now) ==
    IF TextoCorto(diagnostico, 3) THEN Raise(c)
    ELSE Return([c EXCEPT !.estado = COMPLETADA,
                          !.diagnostico = diagnostico,
                          !.tratamiento = tratamiento,
                          !.fecha_modificacion = now])

\* mutant: only an appointment En curso can be completed
completar_solo_en_curso(c, diagnostico, tratamiento, now) ==
    IF c.estado # EN_CURSO THEN Raise(c)
    ELSE IF TextoCorto(diagnostico, 3) THEN Raise(c)
    ELSE Return([c EXCEPT !.estado = COMPLETADA,
                          !.diagnostico = diagnostico,
                          !.tratamiento = tratamiento,
                          !.fecha_modificacion = now])

\* mutant: the diagnosis is measured without strip()
completar_sin_strip(c, diagnostico, tratamiento, now) ==
    IF c.estado = CANCELADA THEN Raise(c)
    ELSE IF Falsy(diagnostico) \/ Len(diagnostico) < 3 THEN Raise(c)
    ELSE Return([c EXCEPT !.estado = COMPLETADA,
                          !.diagnostico = diagnostico,
                          !.tratamiento = tratamiento,
                          !.fecha_modificacion = now])

completar(c, diagnostico, tratamiento, now) ==
    IF c.estado = CANCELADA THEN Raise(c)
    ELSE IF TextoCorto(diagnostico, 3) THEN Raise(c)
    ELSE Return([c EXCEPT !.estado = COMPLETADA,
                          !.diagnostico = diagnostico,
                          !.tratamiento = tratamiento,
                          !.fecha_modificacion = now])

\* mutant: the check of the completed state is missing
cancelar_sin_guarda(c, motivo, now) ==
    IF TextoCorto(motivo, 3) THEN Raise(c)
    ELSE Return([c EXCEPT !.estado = CANCELADA,
                          !.motivo_cancelacion = motivo,
                          !.fecha_modificacion = now])

\* mutant: any non-empty reason is accepted
cancelar_sin_motivo(c, motivo, now) ==
    IF c.estado = COMPLETADA THEN Raise(c)
    ELSE IF Falsy(motivo) THEN Raise(c)
    ELSE Return([c EXCEPT !.estado = CANCELADA,
                          !.motivo_cancelacion = motivo,
                          !.fecha_modificacion = now])

cancelar(c, motivo, now) ==
    IF c.estado = COMPLETADA THEN Raise(c)
    ELSE IF TextoCorto(motivo, 3) THEN Raise(c)
    ELSE Return([c EXCEPT !.estado = CANCELADA,
                          !.motivo_cancelacion = motivo,
                          !.fecha_modificacion = now])

\* mutant: an appointment in any state may be moved
reprogramar_desde_cualquiera(c, nueva_fecha_hora, now) ==
    IF nueva_fecha_hora < now THEN Raise(c)
    ELSE Return([c EXCEPT !.fecha_hora = nueva_fecha_hora,
                          !.estado = PROGRAMADA,
                          !.fecha_modificacion = now])

\* mutant: the state is left as it was
reprogramar_conserva_estado(c, nueva_fecha_hora, now) ==
    IF c.estado \notin {PROGRAMADA, EN_CURSO} THEN Raise(c)
    ELSE IF nueva_fecha_hora < now THEN Raise(c)
    ELSE Return([c EXCEPT !.fecha_hora = nueva_fecha_hora,
                          !.fecha_modificacion = now])

reprogramar(c, nueva_fecha_hora, now) ==
    IF c.estado \notin {PROGRAMADA, EN_CURSO} THEN Raise(c)
    ELSE IF nueva_fecha_hora < now THEN Raise(c)
    ELSE Return([c EXCEPT !.fecha_hora = nueva_fecha_hora,
                          !.estado = PROGRAMADA,
                          !.fecha_modificacion = now])

\* mutant: the appointment starts at the time it is started
iniciar_ahora(c, now) ==
    IF c.estado # PROGRAMADA THEN Raise(c)
    ELSE Return([c EXCEPT !.estado = EN_CURSO, !.fecha_hora = now,
                          !.fecha_modificacion = now])

\* mutant: the check of the state is missing
iniciar_sin_guarda(c, now) ==
    Return([c EXCEPT !.estado = EN_CURSO, !.fecha_modificacion = now])

iniciar(c, now) ==
    IF c.estado # PROGRAMADA THEN Raise(c)
    ELSE Return([c EXCEPT !.estado = EN_CURSO, !.fecha_modificacion = now])

obtener_hora_fin(c) == c.fecha_hora + c.duracion_minutos

\* mutant: the interval ends are compared with <=, so back-to-back
\* appointments count as overlapping
solapa_con_inclusivo(c, otra_cita) ==
    IF c.veterinario_nombre # otra_cita.veterinario_nombre THEN FALSE
    ELSE c.fecha_hora <= obtener_hora_fin(otra_cita)
         /\ otra_cita.fecha_hora <= obtener_hora_fin(c)

\* mutant: only the other appointment's start is tested against this
\* appointment's interval
solapa_con_un_lado(c, otra_cita) ==
    IF c.veterinario_nombre # otra_cita.veterinario_nombre THEN FALSE
    ELSE c.fecha_hora <= otra_cita.fecha_hora
         /\ otra_cita.fecha_hora < obtener_hora_fin(c)

solapa_con(c, otra_cita) ==
    IF c.veterinario_nombre # otra_cita.veterinario_nombre THEN FALSE
    ELSE LET inicio1 == c.fecha_hora
             fin1 == obtener_hora_fin(c)
             inicio2 == otra_cita.fecha_hora
             fin2 == obtener_hora_fin(otra_cita)
         IN  inicio1 < fin2 /\ inicio2 < fin1

(***************************************************************************)
(* LineaFactura and Factura (domain entities)                              *)
(***************************************************************************)
\* LineaFactura.validar: TRUE when no ValueError is raised
validar_linea(l) ==
    /\ ~TextoCorto(l.concepto, 3)
    /\ ~(l.cantidad <= 0)
    /\ ~es_negativo(l.precio_unitario)
    /\ ~(es_negativo(l.iva_porcentaje) \/ mayor_que(l.iva_porcentaje, Cien))

\* LineaFactura.calcular_subtotal, calcular_iva and calcular_total
linea_calcular_subtotal(l) == multiplicar(DecimalDeEntero(l.cantidad), l.precio_unitario)

linea_calcular_iva(l) == multiplicar(linea_calcular_subtotal(l), entre_cien(l.iva_porcentaje))

linea_calcular_total(l) == sumar(linea_calcular_subtotal(l), linea_calcular_iva(l))

MetodosPago ==
    {<<"E", "f", "e", "c", "t", "i", "v", "o">>, <<"T", "a", "r", "j", "e", "t", "a">>,
     <<"T", "r", "a", "n", "s", "f", "e", "r", "e", "n", "c", "i", "a">>}

\* mutant: the payment date is not compared with the issue date
validar_factura_sin_orden(f, now) ==
    /\ ~TextoCorto(f.numero_factura, 1)
    /\ f.cita_id > 0
    /\ f.cliente_id > 0
    /\ f.fecha_emision # SinFecha
    /\ ~(f.fecha_emision > now)
    /\ ~(f.pagada /\ f.fecha_pago = SinFecha)
    /\ ~(~Falsy(f.metodo_pago) /\ f.metodo_pago \notin MetodosPago)

\* Factura.validar: TRUE when no ValueError is raised
validar_factura(f, now) ==
    /\ ~TextoCorto(f.numero_factura, 1)
    /\ f.cita_id > 0
    /\ f.cliente_id > 0
    /\ f.fecha_emision # SinFecha
    /\ ~(f.fecha_emision > now)
    /\ ~(f.pagada /\ f.fecha_pago = SinFecha)
    /\ ~(f.fecha_pago # SinFecha /\ f.fecha_pago < f.fecha_emision)
    /\ ~(~Falsy(f.metodo_pago) /\ f.metodo_pago \notin MetodosPago)

\* the dataclass constructor with its defaults
NuevaFactura(numero_factura, cita_id, cliente_id, fecha_emision, lineas, obs) ==
    [id |-> IdNone, numero_factura |-> numero_factura, cita_id |-> cita_id,
     cliente_id |-> cliente_id, fecha_emision |-> fecha_emision, lineas |-> lineas,
     pagada |-> FALSE, fecha_pago |-> SinFecha, metodo_pago |-> None,
     observaciones |-> obs]

\* mutant: a line is added whether the invoice is paid or not
agregar_linea_a_pagada(f, linea) ==
    IF ~validar_linea(linea) THEN [raised |-> TRUE, factura |-> f]
    ELSE [raised |-> FALSE, factura |-> [f EXCEPT !.lineas = Append(@, linea)]]

\* Factura.agregar_linea
agregar_linea(f, linea) ==
    IF f.pagada THEN [raised |-> TRUE, factura |-> f]
    ELSE IF ~validar_linea(linea) THEN [raised |-> TRUE, factura |-> f]
    ELSE [raised |-> FALSE, factura |-> [f EXCEPT !.lineas = Append(@, linea)]]

\* list.remove: the sequence without the first element equal to x
remove(s, x) ==
    LET k == CHOOSE i \in 1 .. Len(s) : s[i] = x /\ \A j \in 1 .. i - 1 : s[j] # x
    IN  SubSeq(s, 1, k - 1) \o SubSeq(s, k + 1, Len(s))

\* Factura.eliminar_linea
eliminar_linea(f, linea) ==
    IF f.pagada THEN [raised |-> TRUE, factura |-> f]
    ELSE IF \E i \in 1 .. Len(f.lineas) : f.lineas[i] = linea
         THEN [raised |-> FALSE, factura |-> [f EXCEPT !.lineas = remove(@, linea)]]
    ELSE [raised |-> TRUE, factura |-> f]

\* sum(..., Decimal('0')) over the amounts, from the first to the last
RECURSIVE sum(_)
sum(importes) ==
    IF importes = <<>> THEN Cero
    ELSE sumar(sum(SubSeq(importes, 1, Len(importes) - 1)), importes[Len(importes)])

\* Factura.calcular_subtotal, calcular_total_iva and calcular_total
calcular_subtotal(f) ==
    sum([i \in 1 .. Len(f.lineas) |-> linea_calcular_subtotal(f.lineas[i])])

calcular_total_iva(f) ==
    sum([i \in 1 .. Len(f.lineas) |-> linea_calcular_iva(f.lineas[i])])

calcular_total(f) ==
    sum([i \in 1 .. Len(f.lineas) |-> linea_calcular_total(f.lineas[i])])

\* mutant: an invoice that is paid can be paid again
marcar_como_pagada_otra_vez(f, metodo_pago, fecha_pago, now) ==
    IF f.lineas = <<>> THEN [raised |-> TRUE, factura |-> f]
    ELSE IF metodo_pago \notin MetodosPago THEN [raised |-> TRUE, factura |-> f]
    ELSE [raised |-> FALSE,
          factura |-> [f EXCEPT !.pagada = TRUE,
                                !.metodo_pago = metodo_pago,
                                !.fecha_pago = IF fecha_pago = SinFecha THEN now
                                               ELSE fecha_pago]]

\* mutant: the method of payment is not looked at
marcar_como_pagada_sin_metodo(f, metodo_pago, fecha_pago, now) ==
    IF f.pagada THEN [raised |-> TRUE, factura |-> f]
    ELSE IF f.lineas = <<>> THEN [raised |-> TRUE, factura |-> f]
    ELSE [raised |-> FALSE,
          factura |-> [f EXCEPT !.pagada = TRUE,
                                !.metodo_pago = metodo_pago,
                                !.fecha_pago = IF fecha_pago = SinFecha THEN now
                                               ELSE fecha_pago]]

\* Factura.marcar_como_pagada; `fecha_pago or datetime.now()` takes the clock
\* when no date is given
marcar_como_pagada(f, metodo_pago, fecha_pago, now) ==
    IF f.pagada THEN [raised |-> TRUE, factura |-> f]
    ELSE IF f.lineas = <<>> THEN [raised |-> TRUE, factura |-> f]
    ELSE IF metodo_pago \notin MetodosPago THEN [raised |-> TRUE, factura |-> f]
    ELSE [raised |-> FALSE,
          factura |-> [f EXCEPT !.pagada = TRUE,
                                !.metodo_pago = metodo_pago,
                                !.fecha_pago = IF fecha_pago = SinFecha THEN now
                                               ELSE fecha_pago]]

(***************************************************************************)
(* Repositories                                                            *)
(***************************************************************************)
existe_cliente(id) == id \in 1 .. Len(clientes)
existe_mascota(id) == id \in 1 .. Len(mascotas)
existe_cita(id) == id \in 1 .. Len(citas)

\* datetime.date() of a datetime
Fecha(fecha_hora) == fecha_hora \div MinutosDia

\* mutant: the rows of the veterinarian on every date
listar_por_veterinario_sin_fecha(veterinario_nombre, fecha) ==
    {citas[i] : i \in {j \in 1 .. Len(citas) :
        citas[j].veterinario_nombre = veterinario_nombre}}

\* CitaRepository.listar_por_veterinario: the rows of the veterinarian whose
\* start lies between the first and the last instant of the date
listar_por_veterinario(veterinario_nombre, fecha) ==
    LET fecha_inicio == fecha * MinutosDia
        fecha_fin == fecha * MinutosDia + (MinutosDia - 1)
    IN  {citas[i] : i \in {j \in 1 .. Len(citas) :
            /\ citas[j].veterinario_nombre = veterinario_nombre
            /\ citas[j].fecha_hora >= fecha_inicio
            /\ citas[j].fecha_hora <= fecha_fin}}

\* CitaRepository.crear: the row gets the next id
crear(c) == Append(citas, [c EXCEPT !.id = Len(citas) + 1])

\* CitaRepository.actualizar: only these columns are written
actualizar(c) ==
    [citas EXCEPT ![c.id] =
        [@ EXCEPT !.fecha_hora = c.fecha_hora,
                  !.duracion_minutos = c.duracion_minutos,
                  !.motivo = c.motivo,
                  !.estado = c.estado,
                  !.observaciones = c.observaciones,
                  !.diagnostico = c.diagnostico,
                  !.tratamiento = c.tratamiento,
                  !.motivo_cancelacion = c.motivo_cancelacion,
                  !.fecha_modificacion = c.fecha_modificacion]]

\* Python's str(n) of a natural number, int(s) of a text of digits,
\* s.zfill(w) and s.split('-')[-1]
Digitos == <<"0", "1", "2", "3", "4", "5", "6", "7", "8", "9">>

RECURSIVE str(_)
str(n) == IF n < 10 THEN <<Digitos[n + 1]>>
          ELSE Append(str(n \div 10), Digitos[(n % 10) + 1])

EsEntero(s) == s # <<>> /\ \A i \in 1 .. Len(s) : \E d \in 1 .. 10 : Digitos[d] = s[i]

RECURSIVE int(_)
int(s) ==
    IF s = <<>> THEN 0
    ELSE int(SubSeq(s, 1, Len(s) - 1)) * 10
         + ((CHOOSE d \in 1 .. 10 : Digitos[d] = s[Len(s)]) - 1)

RECURSIVE zfill(_, _)
zfill(s, w) == IF Len(s) >= w THEN s ELSE zfill(<<"0">> \o s, w)

RECURSIVE ultima_parte(_)
ultima_parte(s) ==
    IF s = <<>> \/ s[Len(s)] = "-" THEN <<>>
    ELSE Append(ultima_parte(SubSeq(s, 1, Len(s) - 1)), s[Len(s)])

PrefijoNumero == <<"F", "-", "2", "0", "2", "5", "-">>

\* mutant: the sequence number is not padded
generar_numero_factura_sin_relleno ==
    IF facturas = <<>> THEN PrefijoNumero \o <<"0", "0", "0", "0", "1">>
    ELSE LET ultimo == facturas[Len(facturas)]
             parte == ultima_parte(ultimo.numero_factura)
         IN  IF EsEntero(parte) THEN PrefijoNumero \o str(int(parte) + 1)
             ELSE PrefijoNumero \o str(ultimo.id + 1)

\* FacturaRepository.generar_numero_factura: the row of highest id is the last
\* one inserted
generar_numero_factura ==
    IF facturas = <<>> THEN PrefijoNumero \o <<"0", "0", "0", "0", "1">>
    ELSE LET ultimo == facturas[Len(facturas)]
             parte == ultima_parte(ultimo.numero_factura)
         IN  IF EsEntero(parte) THEN PrefijoNumero \o zfill(str(int(parte) + 1), 5)
             ELSE PrefijoNumero \o zfill(str(ultimo.id + 1), 5)

\* FacturaRepository.crear: the row gets the next id
crear_factura(f) == Append(facturas, [f EXCEPT !.id = Len(facturas) + 1])

existe_factura(id) == id \in 1 .. Len(facturas)

\* FacturaRepository.actualizar: only these columns are written
actualizar_factura(f) ==
    [facturas EXCEPT ![f.id] =
        [@ EXCEPT !.pagada = f.pagada,
                  !.fecha_pago = f.fecha_pago,
                  !.metodo_pago = f.metodo_pago,
                  !.observaciones = f.observaciones]]

(***************************************************************************)
(* CitaService                                                             *)
(***************************************************************************)
\* mutant: the appointment itself is not skipped
tiene_solape_sin_excluir(c) ==
    \E cita_existente \in listar_por_veterinario(c.veterinario_nombre, Fecha(c.fecha_hora)) :
        /\ ~(cita_existente.estado = CANCELADA)
        /\ solapa_con(c, cita_existente)

tiene_solape(c) ==
    \E cita_existente \in listar_por_veterinario(c.veterinario_nombre, Fecha(c.fecha_hora)) :
        /\ ~(  (c.id # IdNone /\ cita_existente.id = c.id)
            \/ cita_existente.estado = CANCELADA)
        /\ solapa_con(c, cita_existente)

SinError == "ninguno"

\* the classes of utils/exceptions.py and the built-in class that the raise
\* statements name
ValidationError == "ValidationError"
NotFoundError == "NotFoundError"
BusinessRuleError == "BusinessRuleError"
ValueError == "ValueError"

\* what the last call handed to its caller: the call, the appointment id it
\* named (for agendar_cita the id of the row created, IdNone when none was),
\* whether it returned (ok), and the class of the exception when it did not:
\* every raise statement of the services, the entities and the repositories
\* is `raise ValueError(...)`
Resultado(op, id, ok) ==
    [op |-> op, id |-> id, ok |-> ok,
     excepcion |-> IF ok THEN SinError ELSE ValueError]

\* mutant: the owner of the pet is not compared with the client
agendar_error_sin_duenno(cliente_id, mascota_id, c) ==
    IF ~existe_cliente(cliente_id) THEN "cliente no existe"
    ELSE IF ~clientes[cliente_id].activo THEN "cliente inactivo"
    ELSE IF ~existe_mascota(mascota_id) THEN "mascota no existe"
    ELSE IF ~mascotas[mascota_id].activo THEN "mascota inactiva"
    ELSE IF ~validar(c, ahora) THEN "cita no valida"
    ELSE IF tiene_solape(c) THEN "solape"
    ELSE SinError

\* the checks of agendar_cita that precede the persist, in their order: the
\* ValueError that is raised, SinError when none is
agendar_error(cliente_id, mascota_id, c) ==
    IF ~existe_cliente(cliente_id) THEN "cliente no existe"
    ELSE IF ~clientes[cliente_id].activo THEN "cliente inactivo"
    ELSE IF ~existe_mascota(mascota_id) THEN "mascota no existe"
    ELSE IF ~mascotas[mascota_id].activo THEN "mascota inactiva"
    ELSE IF mascotas[mascota_id].cliente_id # cliente_id THEN "mascota de otro cliente"
    ELSE IF ~validar(c, ahora) THEN "cita no valida"
    ELSE IF tiene_solape(c) THEN "solape"
    ELSE SinError

agendar_admite(cliente_id, mascota_id, c) ==
    agendar_error(cliente_id, mascota_id, c) = SinError

agendar_cita(cliente_id, mascota_id, vet, fecha_hora, motivo, dur, obs) ==
    LET c == NuevaCita(cliente_id, mascota_id, vet, fecha_hora, motivo, dur, obs, ahora)
    IN  /\ IF agendar_admite(cliente_id, mascota_id, c)
           THEN /\ citas' = crear(c)
                /\ ultima' = Resultado("agendar_cita", Len(citas) + 1, TRUE)
           ELSE /\ citas' = citas
                /\ ultima' = Resultado("agendar_cita", IdNone, FALSE)
        /\ UNCHANGED <<clientes, mascotas, facturas, ahora, en_vuelo, objeto>>

\* agendar_cita of a request served concurrently with others, up to the call of
\* repository.crear: when no check raises, the appointment built is held by the
\* request, which has still to reach the insert
agendar_cita_comprobar(cliente_id, mascota_id, vet, fecha_hora, motivo, dur, obs) ==
    LET c == NuevaCita(cliente_id, mascota_id, vet, fecha_hora, motivo, dur, obs, ahora)
    IN  /\ IF agendar_admite(cliente_id, mascota_id, c)
           THEN /\ en_vuelo' = Append(en_vuelo, c)
                /\ ultima' = ultima
           ELSE /\ en_vuelo' = en_vuelo
                /\ ultima' = Resultado("agendar_cita", IdNone, FALSE)
        /\ UNCHANGED <<clientes, mascotas, citas, facturas, ahora, objeto>>

SinElemento(s, k) == SubSeq(s, 1, k - 1) \o SubSeq(s, k + 1, Len(s))

\* mutant: the insert looks for conflicts again, as one transaction with the
\* check would
agendar_cita_crear_comprobando(k) ==
    /\ IF validar(en_vuelo[k], ahora) /\ ~tiene_solape(en_vuelo[k])
       THEN /\ citas' = crear(en_vuelo[k])
            /\ ultima' = Resultado("agendar_cita", Len(citas) + 1, TRUE)
       ELSE /\ citas' = citas
            /\ ultima' = Resultado("agendar_cita", IdNone, FALSE)
    /\ en_vuelo' = SinElemento(en_vuelo, k)
    /\ UNCHANGED <<clientes, mascotas, facturas, ahora, objeto>>

\* repository.crear of the k-th request in flight: the appointment is validated
\* once more and inserted
agendar_cita_crear(k) ==
    /\ IF validar(en_vuelo[k], ahora)
       THEN /\ citas' = crear(en_vuelo[k])
            /\ ultima' = Resultado("agendar_cita", Len(citas) + 1, TRUE)
       ELSE /\ citas' = citas
            /\ ultima' = Resultado("agendar_cita", IdNone, FALSE)
    /\ en_vuelo' = SinElemento(en_vuelo, k)
    /\ UNCHANGED <<clientes, mascotas, facturas, ahora, objeto>>

\* mutant: an id that names no appointment is passed over without an error
Transicion_silenciosa(op, id, r) ==
    /\ IF ~existe_cita(id)
       THEN /\ citas' = citas
            /\ ultima' = Resultado(op, id, TRUE)
       ELSE IF ~r.raised /\ validar(r.cita, ahora)
       THEN /\ citas' = actualizar(r.cita)
            /\ ultima' = Resultado(op, id, TRUE)
       ELSE /\ citas' = citas
            /\ ultima' = Resultado(op, id, FALSE)
    /\ UNCHANGED <<clientes, mascotas, facturas, ahora, en_vuelo, objeto>>

\* mutant: the transition is persisted only for an active client and pet
Transicion_con_titular_activo(op, id, r) ==
    /\ IF /\ existe_cita(id) /\ ~r.raised /\ validar(r.cita, ahora)
          /\ clientes[r.cita.cliente_id].activo
          /\ mascotas[r.cita.mascota_id].activo
       THEN /\ citas' = actualizar(r.cita)
            /\ ultima' = Resultado(op, id, TRUE)
       ELSE /\ citas' = citas
            /\ ultima' = Resultado(op, id, FALSE)
    /\ UNCHANGED <<clientes, mascotas, facturas, ahora, en_vuelo, objeto>>

\* a transition of the entity followed by repository.actualizar
Transicion(op, id, r) ==
    /\ IF existe_cita(id) /\ ~r.raised /\ validar(r.cita, ahora)
       THEN /\ citas' = actualizar(r.cita)
            /\ ultima' = Resultado(op, id, TRUE)
       ELSE /\ citas' = citas
            /\ ultima' = Resultado(op, id, FALSE)
    /\ UNCHANGED <<clientes, mascotas, facturas, ahora, en_vuelo, objeto>>

completar_cita(id, diagnostico, tratamiento) ==
    Transicion("completar_cita", id,
               IF existe_cita(id) THEN completar(citas[id], diagnostico, tratamiento, ahora)
               ELSE Raise(None))

cancelar_cita(id, motivo) ==
    Transicion("cancelar_cita", id,
               IF existe_cita(id) THEN cancelar(citas[id], motivo, ahora) ELSE Raise(None))

iniciar_cita(id) ==
    Transicion("iniciar_cita", id,
               IF existe_cita(id) THEN iniciar(citas[id], ahora) ELSE Raise(None))

\* mutant: on a conflict the appointment, with its start put back, is written
\* to the table before the error is raised
reprogramar_cita_guarda_en_conflicto(id, nueva_fecha_hora) ==
    LET r == IF existe_cita(id) THEN reprogramar(citas[id], nueva_fecha_hora, ahora)
             ELSE Raise(None)
    IN  IF ~r.raised /\ tiene_solape(r.cita)
        THEN /\ citas' = actualizar([r.cita EXCEPT !.fecha_hora = citas[id].fecha_hora])
             /\ ultima' = Resultado("reprogramar_cita", id, FALSE)
             /\ UNCHANGED <<clientes, mascotas, facturas, ahora, en_vuelo, objeto>>
        ELSE Transicion("reprogramar_cita", id, r)

reprogramar_cita(id, nueva_fecha_hora) ==
    LET r == IF existe_cita(id) THEN reprogramar(citas[id], nueva_fecha_hora, ahora)
             ELSE Raise(None)
    IN  Transicion("reprogramar_cita", id,
                   IF ~r.raised /\ tiene_solape(r.cita) THEN Raise(r.cita) ELSE r)

\* the local variable cita of reprogramar_cita when the call ends, for an
\* appointment that exists: the entity read from the table, moved by
\* reprogramar, and with fecha_hora put back to fecha_original when the
\* entity, the conflict check or repository.actualizar raised
reprogramar_cita_en_memoria(id, nueva_fecha_hora) ==
    LET fecha_original == citas[id].fecha_hora
        r == reprogramar(citas[id], nueva_fecha_hora, ahora)
    IN  IF r.raised THEN [r.cita EXCEPT !.fecha_hora = fecha_original]
        ELSE IF tiene_solape(r.cita) THEN [r.cita EXCEPT !.fecha_hora = fecha_original]
        ELSE IF ~validar(r.cita, ahora) THEN [r.cita EXCEPT !.fecha_hora = fecha_original]
        ELSE r.cita

(***************************************************************************)
(* FacturaService                                                          *)
(***************************************************************************)
\* the invoice crear_factura_desde_cita builds for an existing appointment
FacturaDe(cita_id, lineas_data, observaciones) ==
    NuevaFactura(generar_numero_factura, cita_id, citas[cita_id].cliente_id, ahora,
                 lineas_data, observaciones)

\* mutant: the state of the appointment is not looked at
crear_factura_error_sin_estado(cita_id, lineas_data, observaciones) ==
    IF ~existe_cita(cita_id) THEN "cita no existe"
    ELSE IF \E k \in 1 .. Len(facturas) : facturas[k].cita_id = cita_id
         THEN "cita ya facturada"
    ELSE IF ~existe_cliente(citas[cita_id].cliente_id) THEN "cliente no existe"
    ELSE IF \E k \in 1 .. Len(lineas_data) : ~validar_linea(lineas_data[k])
         THEN "linea no valida"
    ELSE IF lineas_data = <<>> THEN "factura sin lineas"
    ELSE IF ~validar_factura(FacturaDe(cita_id, lineas_data, observaciones), ahora)
         THEN "factura no valida"
    ELSE SinError

\* mutant: the invoices already stored are not scanned
crear_factura_error_sin_repetida(cita_id, lineas_data, observaciones) ==
    IF ~existe_cita(cita_id) THEN "cita no existe"
    ELSE IF citas[cita_id].estado # COMPLETADA THEN "cita no completada"
    ELSE IF ~existe_cliente(citas[cita_id].cliente_id) THEN "cliente no existe"
    ELSE IF \E k \in 1 .. Len(lineas_data) : ~validar_linea(lineas_data[k])
         THEN "linea no valida"
    ELSE IF lineas_data = <<>> THEN "factura sin lineas"
    ELSE IF ~validar_factura(FacturaDe(cita_id, lineas_data, observaciones), ahora)
         THEN "factura no valida"
    ELSE SinError

\* mutant: an empty list of lines is let through
crear_factura_error_sin_vacia(cita_id, lineas_data, observaciones) ==
    IF ~existe_cita(cita_id) THEN "cita no existe"
    ELSE IF citas[cita_id].estado # COMPLETADA THEN "cita no completada"
    ELSE IF \E k \in 1 .. Len(facturas) : facturas[k].cita_id = cita_id
         THEN "cita ya facturada"
    ELSE IF ~existe_cliente(citas[cita_id].cliente_id) THEN "cliente no existe"
    ELSE IF \E k \in 1 .. Len(lineas_data) : ~validar_linea(lineas_data[k])
         THEN "linea no valida"
    ELSE IF ~validar_factura(FacturaDe(cita_id, lineas_data, observaciones), ahora)
         THEN "factura no valida"
    ELSE SinError

\* the checks of crear_factura_desde_cita in their order: the ValueError that
\* is raised, SinError when none is
crear_factura_error(cita_id, lineas_data, observaciones) ==
    IF ~existe_cita(cita_id) THEN "cita no existe"
    ELSE IF citas[cita_id].estado # COMPLETADA THEN "cita no completada"
    ELSE IF \E k \in 1 .. Len(facturas) : facturas[k].cita_id = cita_id
         THEN "cita ya facturada"
    ELSE IF ~existe_cliente(citas[cita_id].cliente_id) THEN "cliente no existe"
    ELSE IF \E k \in 1 .. Len(lineas_data) : ~validar_linea(lineas_data[k])
         THEN "linea no valida"
    ELSE IF lineas_data = <<>> THEN "factura sin lineas"
    ELSE IF ~validar_factura(FacturaDe(cita_id, lineas_data, observaciones), ahora)
         THEN "factura no valida"
    ELSE SinError

crear_factura_desde_cita(cita_id, lineas_data, observaciones) ==
    /\ IF crear_factura_error(cita_id, lineas_data, observaciones) = SinError
       THEN /\ facturas' = crear_factura(FacturaDe(cita_id, lineas_data, observaciones))
            /\ ultima' = Resultado("crear_factura_desde_cita", cita_id, TRUE)
       ELSE /\ facturas' = facturas
            /\ ultima' = Resultado("crear_factura_desde_cita", cita_id, FALSE)
    /\ UNCHANGED <<clientes, mascotas, citas, ahora, en_vuelo, objeto>>

\* the class sqlalchemy raises at the commit of a row that a constraint of
\* the table refuses
IntegrityError == "IntegrityError"

\* the unique index of FacturaModel.numero_factura: a row with this number
\* is stored
numero_factura_unico(numero) ==
    \A k \in 1 .. Len(facturas) : facturas[k].numero_factura # numero

\* mutant: the number is reserved with the requests that have still to
\* insert, as a generation that is one transaction with the insert would
crear_factura_desde_cita_comprobar_con_reserva(cita_id, lineas_data, observaciones) ==
    /\ IF crear_factura_error(cita_id, lineas_data, observaciones) = SinError
       THEN /\ en_vuelo' =
                   Append(en_vuelo,
                          [FacturaDe(cita_id, lineas_data, observaciones) EXCEPT
                              !.numero_factura =
                                  PrefijoNumero
                                      \o zfill(str(Len(facturas) + Len(en_vuelo) + 1), 5)])
            /\ ultima' = ultima
       ELSE /\ en_vuelo' = en_vuelo
            /\ ultima' = Resultado("crear_factura_desde_cita", cita_id, FALSE)
    /\ UNCHANGED <<clientes, mascotas, citas, facturas, ahora, objeto>>

\* crear_factura_desde_cita of a request served concurrently with others, up
\* to the call of repository.crear: when no check raises, the invoice built,
\* with the number generated from the rows stored at that moment, is held by
\* the request, which has still to reach the insert
crear_factura_desde_cita_comprobar(cita_id, lineas_data, observaciones) ==
    /\ IF crear_factura_error(cita_id, lineas_data, observaciones) = SinError
       THEN /\ en_vuelo' = Append(en_vuelo, FacturaDe(cita_id, lineas_data, observaciones))
            /\ ultima' = ultima
       ELSE /\ en_vuelo' = en_vuelo
            /\ ultima' = Resultado("crear_factura_desde_cita", cita_id, FALSE)
    /\ UNCHANGED <<clientes, mascotas, citas, facturas, ahora, objeto>>

\* repository.crear of the k-th request in flight: the invoice is validated
\* once more and inserted; the commit raises when the table holds its number
crear_factura_desde_cita_crear(k) ==
    /\ IF ~validar_factura(en_vuelo[k], ahora)
       THEN /\ facturas' = facturas
            /\ ultima' = Resultado("crear_factura_desde_cita", en_vuelo[k].cita_id, FALSE)
       ELSE IF ~numero_factura_unico(en_vuelo[k].numero_factura)
       THEN /\ facturas' = facturas
            /\ ultima' = [Resultado("crear_factura_desde_cita", en_vuelo[k].cita_id, FALSE)
                             EXCEPT !.excepcion = IntegrityError]
       ELSE /\ facturas' = crear_factura(en_vuelo[k])
            /\ ultima' = Resultado("crear_factura_desde_cita", en_vuelo[k].cita_id, TRUE)
    /\ en_vuelo' = SinElemento(en_vuelo, k)
    /\ UNCHANGED <<clientes, mascotas, citas, ahora, objeto>>

\* FacturaService.marcar_como_pagada: the invoice is read, marked and written
\* back; FacturaRepository.actualizar validates it before it writes
FacturaService_marcar_como_pagada(id, metodo_pago, fecha_pago) ==
    LET r == marcar_como_pagada(facturas[id], metodo_pago, fecha_pago, ahora)
        ok == existe_factura(id) /\ ~r.raised /\ validar_factura(r.factura, ahora)
    IN  /\ facturas' = IF ok THEN actualizar_factura(r.factura) ELSE facturas
        /\ ultima' = Resultado("marcar_como_pagada", id, ok)
        /\ UNCHANGED <<clientes, mascotas, citas, ahora, en_vuelo, objeto>>

\* the wall clock read by datetime.now() advances between requests
Tick ==
    /\ ahora + PasoReloj <= RelojInicial + MaxTicks * PasoReloj
    /\ ahora' = ahora + PasoReloj
    /\ UNCHANGED <<clientes, mascotas, citas, facturas, ultima, en_vuelo, objeto>>

(***************************************************************************)
(* Cliente (domain entity), ClienteRepository and ClienteService           *)
(***************************************************************************)
Minusculas ==
    <<"a", "b", "c", "d", "e", "f", "g", "h", "i", "j", "k", "l", "m",
      "n", "o", "p", "q", "r", "s", "t", "u", "v", "w", "x", "y", "z">>
Mayusculas ==
    <<"A", "B", "C", "D", "E", "F", "G", "H", "I", "J", "K", "L", "M",
      "N", "O", "P", "Q", "R", "S", "T", "U", "V", "W", "X", "Y", "Z">>

EsLetra(ch) == \E i \in 1 .. 26 : ch = Minusculas[i] \/ ch = Mayusculas[i]
EsDigito(ch) == \E d \in 1 .. 10 : ch = Digitos[d]

\* str.upper()
upper(s) ==
    [i \in 1 .. Len(s) |->
        IF \E k \in 1 .. 26 : s[i] = Minusculas[k]
        THEN Mayusculas[CHOOSE k \in 1 .. 26 : s[i] = Minusculas[k]]
        ELSE s[i]]

\* Cliente.validar_dni: eight digits and the letter that belongs to them
LetrasDni ==
    <<"T", "R", "W", "A", "G", "M", "Y", "F", "P", "D", "X", "B",
      "N", "J", "Z", "S", "Q", "V", "H", "L", "C", "K", "E">>

validar_dni(dni) ==
    /\ ~Falsy(dni)
    /\ LET d == strip(upper(dni))
       IN  /\ Len(d) = 9
           /\ \A i \in 1 .. 8 : EsDigito(d[i])
           /\ \E k \in 1 .. 26 : d[9] = Mayusculas[k]
           /\ LetrasDni[(int(SubSeq(d, 1, 8)) % 23) + 1] = d[9]

\* re.sub(r'[\s\-]', '', telefono)
RECURSIVE sin_espacios_ni_guiones(_)
sin_espacios_ni_guiones(s) ==
    IF s = <<>> THEN <<>>
    ELSE IF Head(s) = Espacio \/ Head(s) = "-" THEN sin_espacios_ni_guiones(Tail(s))
    ELSE <<Head(s)>> \o sin_espacios_ni_guiones(Tail(s))

\* Cliente.validar_telefono: ^(\+34)?[6-9]\d{8}$ on the cleaned text
NueveCifras(t) ==
    /\ Len(t) = 9
    /\ t[1] \in {"6", "7", "8", "9"}
    /\ \A i \in 2 .. 9 : EsDigito(t[i])

validar_telefono(telefono) ==
    /\ ~Falsy(telefono)
    /\ LET t == sin_espacios_ni_guiones(telefono)
       IN  \/ NueveCifras(t)
           \/ /\ Len(t) = 12
              /\ SubSeq(t, 1, 3) = <<"+", "3", "4">>
              /\ NueveCifras(SubSeq(t, 4, 12))

\* Cliente.validar_email: ^[a-zA-Z0-9._%+-]+@[a-zA-Z0-9.-]+\.[a-zA-Z]{2,}$
EsLocal(ch) == EsLetra(ch) \/ EsDigito(ch) \/ ch \in {".", "_", "%", "+", "-"}
EsDominio(ch) == EsLetra(ch) \/ EsDigito(ch) \/ ch \in {".", "-"}

validar_email(email) ==
    /\ ~Falsy(email)
    /\ LET e == strip(email)
       IN  \E i \in 2 .. Len(e), j \in 1 .. Len(e) :
              /\ e[i] = "@"
              /\ \A k \in 1 .. i - 1 : EsLocal(e[k])
              /\ j > i + 1
              /\ \A k \in i + 1 .. j - 1 : EsDominio(e[k])
              /\ e[j] = "."
              /\ Len(e) - j >= 2
              /\ \A k \in j + 1 .. Len(e) : EsLetra(e[k])

\* Cliente.validar: TRUE when no ValueError is raised
validar_cliente(c) ==
    /\ ~TextoCorto(c.nombre, 2)
    /\ validar_dni(c.dni)
    /\ validar_telefono(c.telefono)
    /\ validar_email(c.email)

\* the dataclass constructor with its defaults
NuevoCliente(nombre, dni, telefono, email, direccion, notas, now) ==
    [id |-> IdNone, nombre |-> nombre, dni |-> dni, telefono |-> telefono,
     email |-> email, activo |-> TRUE, fecha_registro |-> now,
     direccion |-> direccion, notas |-> notas]

\* Cliente.actualizar_datos with nombre and telefono among its keywords; the
\* fields are assigned before they are validated
actualizar_datos(c, nombre, telefono) ==
    LET n == [c EXCEPT !.nombre = nombre, !.telefono = telefono]
    IN  [raised |-> ~validar_cliente(n), cliente |-> n]

\* ClienteRepository.crear, obtener_por_id, obtener_por_dni, actualizar and
\* eliminar; _to_domain builds a Cliente, whose constructor validates
crear_cliente(c) == Append(clientes, [c EXCEPT !.id = Len(clientes) + 1])

obtener_cliente_por_id(id) ==
    IF ~existe_cliente(id) THEN [found |-> FALSE, raised |-> FALSE]
    ELSE [found |-> TRUE, raised |-> ~validar_cliente(clientes[id]),
          cliente |-> clientes[id]]

existe_dni(dni) == \E k \in 1 .. Len(clientes) : clientes[k].dni = dni

actualizar_cliente_en_tabla(c) ==
    [clientes EXCEPT ![c.id] =
        [@ EXCEPT !.nombre = c.nombre,
                  !.telefono = c.telefono,
                  !.email = c.email,
                  !.direccion = c.direccion,
                  !.notas = c.notas,
                  !.activo = c.activo]]

\* mutant: the row is deleted
eliminar_borrando(id) ==
    SubSeq(clientes, 1, id - 1) \o SubSeq(clientes, id + 1, Len(clientes))

eliminar(id) == [clientes EXCEPT ![id].activo = FALSE]

\* a call of ClienteService: the table it leaves and whether it returned
ClienteService(op, id, ok, tabla) ==
    /\ clientes' = IF ok THEN tabla ELSE clientes
    /\ ultima' = Resultado(op, id, ok)
    /\ UNCHANGED <<mascotas, citas, facturas, ahora, en_vuelo, objeto>>

registrar_cliente(nombre, dni, telefono, email) ==
    LET c == NuevoCliente(nombre, dni, telefono, email, None, None, ahora)
    IN  ClienteService("registrar_cliente", Len(clientes) + 1,
                       ~existe_dni(dni) /\ validar_cliente(c), crear_cliente(c))

\* dar_de_baja returns False, and raises nothing, when the id names no client
dar_de_baja(id) ==
    /\ clientes' = IF existe_cliente(id) THEN eliminar(id) ELSE clientes
    /\ ultima' = Resultado("dar_de_baja", id, TRUE)
    /\ UNCHANGED <<mascotas, citas, facturas, ahora, en_vuelo, objeto>>

reactivar_cliente(id) ==
    LET r == obtener_cliente_por_id(id)
    IN  ClienteService("reactivar_cliente", id, r.found /\ ~r.raised,
                       actualizar_cliente_en_tabla([r.cliente EXCEPT !.activo = TRUE]))

actualizar_cliente(id, nombre, telefono) ==
    LET r == obtener_cliente_por_id(id)
        u == actualizar_datos(r.cliente, nombre, telefono)
    IN  ClienteService("actualizar_cliente", id, r.found /\ ~r.raised /\ ~u.raised,
                       actualizar_cliente_en_tabla(u.cliente))

\* the data the callers give for a client
NombreAna == <<"A", "n", "a">>
NombreEva == <<"E", "v", "a">>
DniCero == <<"0", "0", "0", "0", "0", "0", "0", "0", "T">>
DniUno == <<"0", "0", "0", "0", "0", "0", "0", "1", "R">>
DniDos == <<"0", "0", "0", "0", "0", "0", "0", "2", "w">>
DniMalo == <<"0", "0", "0", "0", "0", "0", "0", "2", "T">>
TelefonoOk == <<"6", "1", "2", " ", "3", "4", "5", "-", "6", "7", "8">>
TelefonoFijo == <<"+", "3", "4", "9", "1", "2", "3", "4", "5", "6", "7", "8">>
TelefonoMalo == <<"5", "1", "2", "3", "4", "5", "6", "7", "8">>
EmailOk == <<"a", "@", "b", ".", "e", "s">>
EmailMalo == <<"a", "@", "b">>
Nombres == {NombreEva, <<"A", " ">>}
Dnis == {DniCero, DniDos, DniMalo}
Telefonos == {TelefonoFijo, TelefonoMalo}
Emails == {EmailOk, EmailMalo}

(***************************************************************************)
(* Mascota (domain entity), MascotaRepository and MascotaService           *)
(***************************************************************************)
Especie == {"Perro", "Gato", "Conejo", "Ave", "Roedor", "Reptil", "Otro"}

\* Mascota.validar: TRUE when no ValueError is raised; date.today() is the
\* date of now
validar_mascota(m, now) ==
    /\ ~TextoCorto(m.nombre, 1)
    /\ m.especie \in Especie
    /\ ~TextoCorto(m.raza, 1)
    /\ m.fecha_nacimiento # SinFecha
    /\ ~(m.fecha_nacimiento > Fecha(now))
    /\ m.cliente_id > 0
    /\ (Falsy(m.sexo) \/ m.sexo \in {<<"M">>, <<"F">>})
    /\ (m.peso = None \/ m.peso > 0)

\* the dataclass constructor with its defaults
NuevaMascota(nombre, especie, raza, fecha_nacimiento, cliente_id) ==
    [id |-> IdNone, nombre |-> nombre, especie |-> especie, raza |-> raza,
     fecha_nacimiento |-> fecha_nacimiento, cliente_id |-> cliente_id,
     activo |-> TRUE, sexo |-> None, color |-> None, peso |-> None,
     microchip |-> None, observaciones |-> None]

\* Mascota.actualizar_datos with nombre and cliente_id among its keywords:
\* cliente_id is not in campos_permitidos and is skipped
Mascota_actualizar_datos(m, nombre, cliente_id, now) ==
    LET n == [m EXCEPT !.nombre = nombre]
    IN  [raised |-> ~validar_mascota(n, now), mascota |-> n]

\* MascotaRepository.obtener_por_id (_to_domain builds a Mascota, whose
\* constructor validates), actualizar and eliminar
obtener_mascota_por_id(id) ==
    IF ~existe_mascota(id) THEN [found |-> FALSE, raised |-> FALSE]
    ELSE [found |-> TRUE, raised |-> ~validar_mascota(mascotas[id], ahora),
          mascota |-> mascotas[id]]

actualizar_mascota_en_tabla(m) ==
    [mascotas EXCEPT ![m.id] =
        [@ EXCEPT !.nombre = m.nombre,
                  !.raza = m.raza,
                  !.peso = m.peso,
                  !.color = m.color,
                  !.observaciones = m.observaciones,
                  !.microchip = m.microchip,
                  !.activo = m.activo]]

eliminar_mascota(id) == [mascotas EXCEPT ![id].activo = FALSE]

\* a call of MascotaService: the table it leaves and whether it returned
MascotaService(op, id, ok, tabla) ==
    /\ mascotas' = IF ok THEN tabla ELSE mascotas
    /\ ultima' = Resultado(op, id, ok)
    /\ UNCHANGED <<clientes, citas, facturas, ahora, en_vuelo, objeto>>

\* mutant: the pet is handed over to the client named
actualizar_mascota_con_duenno(id, nombre, cliente_id) ==
    LET r == obtener_mascota_por_id(id)
        u == Mascota_actualizar_datos(r.mascota, nombre, cliente_id, ahora)
    IN  MascotaService("actualizar_mascota", id, r.found /\ ~r.raised /\ ~u.raised,
                       [actualizar_mascota_en_tabla(u.mascota)
                           EXCEPT ![id].cliente_id = cliente_id])

actualizar_mascota(id, nombre, cliente_id) ==
    LET r == obtener_mascota_por_id(id)
        u == Mascota_actualizar_datos(r.mascota, nombre, cliente_id, ahora)
    IN  MascotaService("actualizar_mascota", id, r.found /\ ~r.raised /\ ~u.raised,
                       actualizar_mascota_en_tabla(u.mascota))

\* dar_de_baja returns False, and raises nothing, when the id names no pet
MascotaService_dar_de_baja(id) ==
    MascotaService("MascotaService.dar_de_baja", id, TRUE,
                   IF existe_mascota(id) THEN eliminar_mascota(id) ELSE mascotas)

reactivar_mascota(id) ==
    LET r == obtener_mascota_por_id(id)
    IN  MascotaService("reactivar_mascota", id, r.found /\ ~r.raised,
                       actualizar_mascota_en_tabla([r.mascota EXCEPT !.activo = TRUE]))

\* the data the callers give for a pet
NombreRex == <<"R", "e", "x">>
NombreLuna == <<"L", "u", "n", "a">>
RazaMestizo == <<"m", "e", "s", "t", "i", "z", "o">>
NombresMascota == {NombreLuna, <<" ">>}

(***************************************************************************)
(* The system: requests are served one at a time                          *)
(***************************************************************************)
\* The registry the scheduling service works against: two clients were
\* registered and the second was then deactivated; the first client has two
\* pets, the second of them deactivated, and a third pet belongs to the second
\* client.  No appointment and no invoice exists yet and no request is being
\* served.
Init ==
    /\ clientes =
         <<[NuevoCliente(NombreAna, DniCero, TelefonoOk, EmailOk, None, None,
                         RelojInicial) EXCEPT !.id = 1],
           [NuevoCliente(NombreEva, DniUno, TelefonoFijo, EmailOk, None, None,
                         RelojInicial) EXCEPT !.id = 2, !.activo = FALSE]>>
    /\ mascotas =
         <<[NuevaMascota(NombreRex, "Perro", RazaMestizo, 0, 1) EXCEPT !.id = 1],
           [NuevaMascota(NombreLuna, "Gato", RazaMestizo, 0, 1)
               EXCEPT !.id = 2, !.activo = FALSE],
           [NuevaMascota(NombreRex, "Perro", RazaMestizo, 0, 2) EXCEPT !.id = 3]>>
    /\ citas = <<>>
    /\ facturas = <<>>
    /\ en_vuelo = <<>>
    /\ ahora = RelojInicial
    /\ ultima = Resultado("init", IdNone, TRUE)
    /\ objeto = SinObjeto

\* agendar_cita for the hours given, while the storage of the model holds
\* fewer than n appointments
AgendarEn(n, horas) ==
    /\ Len(citas) < n
    /\ \E cliente_id \in ClienteIds, mascota_id \in MascotaIds, vet \in Veterinarios,
          fecha_hora \in horas, motivo \in Motivos, dur \in Duraciones :
           agendar_cita(cliente_id, mascota_id, vet, fecha_hora, motivo, dur, None)

ReprogramarA(horas) == \E id \in CitaIds, h \in horas : reprogramar_cita(id, h)

Agendar == AgendarEn(MaxCitas, Horas)

Completar ==
    \E id \in CitaIds, d \in Diagnosticos, t \in Tratamientos : completar_cita(id, d, t)

Cancelar == \E id \in CitaIds, m \in MotivosCancelacion : cancelar_cita(id, m)

Iniciar == \E id \in CitaIds : iniciar_cita(id)

Reprogramar == ReprogramarA(Horas)

Next ==
    \/ Agendar
    \/ Completar
    \/ Cancelar
    \/ Iniciar
    \/ Reprogramar
    \/ Tick

Spec == Init /\ [][Next]_vars

\* the lifecycle of the appointments: the storage is bounded by MaxCitasCiclo
\* and the appointments are asked for and moved to the hours of HorasCiclo
AgendarCiclo == AgendarEn(MaxCitasCiclo, HorasCiclo)

ReprogramarCiclo == ReprogramarA(HorasCiclo)

NextCiclo ==
    \/ AgendarCiclo
    \/ Completar
    \/ Cancelar
    \/ Iniciar
    \/ ReprogramarCiclo
    \/ Tick

SpecCiclo == Init /\ [][NextCiclo]_vars

\* appointments and their invoices: the appointments are asked for at the hours
\* of HorasFactura and moved between them; the invoices are asked for at the
\* instant the appointments were completed
AgendarFactura == AgendarEn(MaxCitas, HorasFactura)

ReprogramarFactura == ReprogramarA(HorasFactura)

Facturar ==
    \E cita_id \in CitaIds, lineas_data \in LineasData :
        crear_factura_desde_cita(cita_id, lineas_data, None)

NextFactura ==
    \/ AgendarFactura
    \/ Completar
    \/ Cancelar
    \/ Iniciar
    \/ ReprogramarFactura
    \/ Facturar

SpecFactura == Init /\ [][NextFactura]_vars

\* the payment of the invoices: one appointment is followed to its invoice,
\* which is then paid with a method and a date the caller gives; the dates are
\* none, the start of the clock and the instant after it
FacturaIds == 1 .. Len(facturas) + 1

MetodosPedidos == MetodosPago \cup {None, MetodoBizum}

FechasPago == {SinFecha, RelojInicial, RelojInicial + PasoReloj}

Pagar ==
    \E id \in FacturaIds, metodo_pago \in MetodosPedidos, fecha_pago \in FechasPago :
        FacturaService_marcar_como_pagada(id, metodo_pago, fecha_pago)

NextPago ==
    \/ AgendarCiclo
    \/ Completar
    \/ Facturar
    \/ Pagar
    \/ Tick

SpecPago == Init /\ [][NextPago]_vars

\* a Factura object in memory: it is built, lines are added to it and removed
\* from it while it holds no more than MaxLineas, and it is marked as paid
NumeroObjeto == <<"F", "-", "1">>

Construir ==
    /\ objeto = SinObjeto
    /\ \E lineas \in {<<>>, <<LineaOk>>} :
         LET f == NuevaFactura(NumeroObjeto, 1, 1, ahora, lineas, None)
         IN  /\ validar_factura(f, ahora)
             /\ objeto' = f
    /\ ultima' = Resultado("Factura", IdNone, TRUE)
    /\ UNCHANGED <<clientes, mascotas, citas, facturas, ahora, en_vuelo>>

\* a call of a method of the object: r is what the method returns
MetodoDeObjeto(op, r) ==
    /\ objeto' = r.factura
    /\ ultima' = Resultado(op, IdNone, ~r.raised)
    /\ UNCHANGED <<clientes, mascotas, citas, facturas, ahora, en_vuelo>>

AgregarLinea ==
    /\ objeto # SinObjeto
    /\ \E linea \in LineasObjeto :
         /\ Len(objeto.lineas) < MaxLineas \/ agregar_linea(objeto, linea).raised
         /\ MetodoDeObjeto("agregar_linea", agregar_linea(objeto, linea))

EliminarLinea ==
    /\ objeto # SinObjeto
    /\ \E linea \in LineasObjeto :
         MetodoDeObjeto("eliminar_linea", eliminar_linea(objeto, linea))

MarcarComoPagada ==
    /\ objeto # SinObjeto
    /\ \E metodo_pago \in MetodosPedidos, fecha_pago \in FechasPago :
         MetodoDeObjeto("Factura.marcar_como_pagada",
                        marcar_como_pagada(objeto, metodo_pago, fecha_pago, ahora))

NextObjeto ==
    \/ Construir
    \/ AgregarLinea
    \/ EliminarLinea
    \/ MarcarComoPagada
    \/ Tick

SpecObjeto == Init /\ [][NextObjeto]_vars

\* the registry of clients: clients are registered while the table holds
\* fewer than MaxClientes, and they are updated, deactivated and reactivated
Registrar ==
    /\ Len(clientes) < MaxClientes
    /\ \E nombre \in Nombres, dni \in Dnis, telefono \in Telefonos, email \in Emails :
         registrar_cliente(nombre, dni, telefono, email)

DarDeBaja == \E id \in ClienteIds : dar_de_baja(id)

Reactivar == \E id \in ClienteIds : reactivar_cliente(id)

Actualizar ==
    \E id \in ClienteIds, nombre \in Nombres, telefono \in Telefonos :
        actualizar_cliente(id, nombre, telefono)

NextRegistro ==
    \/ Registrar
    \/ DarDeBaja
    \/ Reactivar
    \/ Actualizar

SpecRegistro == Init /\ [][NextRegistro]_vars

\* the services on one appointment: it is scheduled, follows its lifecycle,
\* is moved, invoiced and paid, and every call may name an id that does not
\* exist
NextServicios ==
    \/ AgendarCiclo
    \/ Completar
    \/ Cancelar
    \/ Iniciar
    \/ ReprogramarCiclo
    \/ Facturar
    \/ Pagar

SpecServicios == Init /\ [][NextServicios]_vars

\* the appointments and their holders: appointments of one veterinarian are
\* asked for at the two sides of midnight and follow their lifecycle while
\* clients and pets are deactivated
HorasMedianoche == {MinutosDia - PasoReloj, MinutosDia}

AgendarTitulares ==
    /\ Len(citas) < MaxCitas
    /\ \E cliente_id \in ClienteIds, mascota_id \in MascotaIds,
          fecha_hora \in HorasMedianoche :
           agendar_cita(cliente_id, mascota_id, VetX, fecha_hora, MotivoOk,
                        DuracionDefecto, None)

DarDeBajaMascota == \E id \in MascotaIds : MascotaService_dar_de_baja(id)

NextTitulares ==
    \/ AgendarTitulares
    \/ Completar
    \/ Cancelar
    \/ Iniciar
    \/ DarDeBaja
    \/ DarDeBajaMascota

SpecTitulares == Init /\ [][NextTitulares]_vars

\* the registry under an appointment: an appointment is asked for while
\* clients and pets are updated, deactivated and reactivated
AgendarRegistrados ==
    /\ Len(citas) < MaxCitasCiclo
    /\ \E cliente_id \in ClienteIds, mascota_id \in MascotaIds :
           agendar_cita(cliente_id, mascota_id, VetX, RelojInicial, MotivoOk,
                        DuracionDefecto, None)

ActualizarRegistrado ==
    \E id \in ClienteIds : actualizar_cliente(id, NombreEva, TelefonoFijo)

ReactivarMascota == \E id \in MascotaIds : reactivar_mascota(id)

ActualizarMascota ==
    \E id \in MascotaIds, nombre \in NombresMascota, cliente_id \in ClienteIds :
        actualizar_mascota(id, nombre, cliente_id)

NextRegistrados ==
    \/ AgendarRegistrados
    \/ DarDeBaja
    \/ Reactivar
    \/ ActualizarRegistrado
    \/ DarDeBajaMascota
    \/ ReactivarMascota
    \/ ActualizarMascota

SpecRegistrados == Init /\ [][NextRegistrados]_vars

\* requests served concurrently: each one runs its checks and, later, its
\* insert; other requests may run between the two
Comprobar ==
    /\ Len(citas) + Len(en_vuelo) < MaxCitas
    /\ \E cliente_id \in ClienteIds, mascota_id \in MascotaIds, vet \in Veterinarios,
          fecha_hora \in Horas, motivo \in Motivos, dur \in Duraciones :
           agendar_cita_comprobar(cliente_id, mascota_id, vet, fecha_hora, motivo, dur, None)

Crear == \E k \in 1 .. Len(en_vuelo) : agendar_cita_crear(k)

NextConcurrente ==
    \/ Comprobar
    \/ Crear
    \/ Cancelar
    \/ Tick

SpecConcurrente == Init /\ [][NextConcurrente]_vars

\* invoices asked for concurrently: each request runs its checks and computes
\* its number and, later, reaches its insert; other requests may run between
\* the two
ComprobarFactura ==
    /\ Len(facturas) + Len(en_vuelo) < MaxCitas
    /\ \E cita_id \in CitaIds, lineas_data \in LineasData :
           crear_factura_desde_cita_comprobar(cita_id, lineas_data, None)

CrearFactura == \E k \in 1 .. Len(en_vuelo) : crear_factura_desde_cita_crear(k)

NextFacturaConcurrente ==
    \/ AgendarTitulares
    \/ Completar
    \/ ComprobarFactura
    \/ CrearFactura

SpecFacturaConcurrente == Init /\ [][NextFacturaConcurrente]_vars

(***************************************************************************)
(* Vocabulary of the properties                                            *)
(***************************************************************************)
Persistidas == 1 .. Len(citas)

Vigente(c) == c.estado # CANCELADA

\* the intervals [start, start + duration) of two appointments intersect
Intersecan(a, b) ==
    /\ a.fecha_hora < b.fecha_hora + b.duracion_minutos
    /\ b.fecha_hora < a.fecha_hora + a.duracion_minutos

MismoVeterinario(a, b) == a.veterinario_nombre = b.veterinario_nombre

\* a text of at least n characters once trimmed
TextoValido(s, n) == s # None /\ Len(strip(s)) >= n

LlamadasAgendar ==
    [cliente_id : ClienteIds, mascota_id : MascotaIds, vet : Veterinarios,
     fecha_hora : Horas, motivo : Motivos, dur : Duraciones]

EsAgendar(a) ==
    agendar_cita(a.cliente_id, a.mascota_id, a.vet, a.fecha_hora, a.motivo, a.dur, None)

\* the request names an active client, an active pet of that client, a reason
\* and a duration that pass validation and a start that is not in the past
SolicitudValida(a) ==
    /\ a.cliente_id \in 1 .. Len(clientes) /\ clientes[a.cliente_id].activo
    /\ a.mascota_id \in 1 .. Len(mascotas) /\ mascotas[a.mascota_id].activo
    /\ mascotas[a.mascota_id].cliente_id = a.cliente_id
    /\ TextoValido(a.vet, 2) /\ TextoValido(a.motivo, 3)
    /\ a.dur >= 1 /\ a.dur <= MaxDuracion
    /\ a.fecha_hora >= ahora

\* the request's interval meets a persisted, not cancelled appointment of its
\* veterinarian
Conflicto(a) ==
    \E i \in Persistidas :
        /\ Vigente(citas[i])
        /\ citas[i].veterinario_nombre = a.vet
        /\ citas[i].fecha_hora < a.fecha_hora + a.dur
        /\ a.fecha_hora < citas[i].fecha_hora + citas[i].duracion_minutos

(***************************************************************************)
(* C1: with the requests served one at a time, no two persisted            *)
(* appointments that are both not cancelled and have the same veterinarian *)
(* have intersecting intervals [start, start + duration).                  *)
(***************************************************************************)
C1_SinSolapes ==
    \A i, j \in Persistidas :
        (/\ i # j
         /\ Vigente(citas[i]) /\ Vigente(citas[j])
         /\ MismoVeterinario(citas[i], citas[j]))
        => ~Intersecan(citas[i], citas[j])

(***************************************************************************)
(* C2: when the veterinarian has a not cancelled appointment [s, s + d),   *)
(* agendar_cita with a start strictly inside it raises and persists        *)
(* nothing; with a start of exactly s + d, and no other conflict, it is    *)
(* accepted and persisted.                                                 *)
(***************************************************************************)
InicioDentro(a) ==
    \E i \in Persistidas :
        /\ Vigente(citas[i])
        /\ citas[i].veterinario_nombre = a.vet
        /\ citas[i].fecha_hora < a.fecha_hora
        /\ a.fecha_hora < citas[i].fecha_hora + citas[i].duracion_minutos

InicioContiguo(a) ==
    \E i \in Persistidas :
        /\ Vigente(citas[i])
        /\ citas[i].veterinario_nombre = a.vet
        /\ a.fecha_hora = citas[i].fecha_hora + citas[i].duracion_minutos

C2_DentroRechazaContiguoAcepta ==
    [][\A a \in LlamadasAgendar :
          EsAgendar(a) =>
            /\ InicioDentro(a) => (~ultima'.ok /\ citas' = citas)
            /\ (InicioContiguo(a) /\ SolicitudValida(a) /\ ~Conflicto(a)) =>
                 /\ ultima'.ok
                 /\ Len(citas') = Len(citas) + 1
                 /\ citas'[Len(citas')].veterinario_nombre = a.vet
                 /\ citas'[Len(citas')].fecha_hora = a.fecha_hora]_vars

(***************************************************************************)
(* C3: solapa_con(A, B) is true exactly when A and B have the same         *)
(* veterinarian name and A.start < B.start + B.duration and                *)
(* B.start < A.start + A.duration; it is false whenever the names differ.  *)
(* The pairs are those of the persisted appointments, and those of a       *)
(* persisted appointment and one a caller can construct (in both orders),  *)
(* with durations up to the longest the entity accepts.                    *)
(***************************************************************************)
DuracionesSolape == {1, DuracionDefecto, MaxDuracion}

Construibles ==
    {NuevaCita(1, 1, vet, h, MotivoOk, d, None, RelojInicial) :
        vet \in Veterinarios, h \in Horas, d \in DuracionesSolape}

\* solapa_con answers as the stated condition does
SolapaComoDebe(a, b) ==
    /\ solapa_con(a, b) <=> (MismoVeterinario(a, b) /\ Intersecan(a, b))
    /\ ~MismoVeterinario(a, b) => ~solapa_con(a, b)

C3_SolapaCon ==
    \A i \in Persistidas :
        /\ \A b \in Construibles :
              SolapaComoDebe(citas[i], b) /\ SolapaComoDebe(b, citas[i])
        /\ \A j \in Persistidas : SolapaComoDebe(citas[i], citas[j])

\* a persisted appointment, compared with one of its veterinarian that starts
\* inside it (overlap), one that starts exactly at its end (no overlap) and one
\* of the other veterinarian at the same time (no overlap)
C3_Testigo ==
    \E i \in Persistidas :
        /\ \E b \in Construibles :
              /\ MismoVeterinario(citas[i], b)
              /\ citas[i].fecha_hora < b.fecha_hora
              /\ b.fecha_hora < obtener_hora_fin(citas[i])
              /\ solapa_con(citas[i], b)
        /\ \E b \in Construibles :
              /\ MismoVeterinario(citas[i], b)
              /\ b.fecha_hora = obtener_hora_fin(citas[i])
              /\ ~solapa_con(citas[i], b)
        /\ \E b \in Construibles :
              /\ ~MismoVeterinario(citas[i], b)
              /\ b.fecha_hora = citas[i].fecha_hora
              /\ ~solapa_con(citas[i], b)

(***************************************************************************)
(* C4: overlap detection is symmetric: solapa_con(A, B) equals             *)
(* solapa_con(B, A) for all appointments A and B.                          *)
(***************************************************************************)
C4_Simetria ==
    \A i \in Persistidas :
        /\ \A b \in Construibles : solapa_con(citas[i], b) = solapa_con(b, citas[i])
        /\ \A j \in Persistidas :
              solapa_con(citas[i], citas[j]) = solapa_con(citas[j], citas[i])

\* a persisted appointment and a longer one that starts earlier and covers it,
\* and a pair that only touches: both orders agree
C4_Testigo ==
    \E i \in Persistidas :
        /\ \E b \in Construibles :
              /\ b.fecha_hora < citas[i].fecha_hora
              /\ obtener_hora_fin(b) > obtener_hora_fin(citas[i])
              /\ solapa_con(citas[i], b) /\ solapa_con(b, citas[i])
        /\ \E b \in Construibles :
              /\ MismoVeterinario(citas[i], b)
              /\ b.fecha_hora = obtener_hora_fin(citas[i])
              /\ ~solapa_con(citas[i], b) /\ ~solapa_con(b, citas[i])

\* the step is a call of op that names the appointment id
Llamada(op, id) == ultima'.op = op /\ ultima'.id = id /\ ahora' = ahora

(***************************************************************************)
(* C5: Completada and Cancelada are terminal: an appointment that is       *)
(* Completada stays Completada, and one that is Cancelada stays Cancelada, *)
(* whatever call is served next.                                           *)
(***************************************************************************)
C5_Terminales ==
    [][/\ Len(citas') >= Len(citas)
       /\ \A i \in Persistidas :
            /\ citas[i].estado = COMPLETADA => citas'[i].estado = COMPLETADA
            /\ citas[i].estado = CANCELADA => citas'[i].estado = CANCELADA]_vars

\* cancelar_cita, iniciar_cita or reprogramar_cita was just called on a
\* completed appointment
C5_Testigo ==
    \E i \in Persistidas :
        /\ citas[i].estado = COMPLETADA
        /\ ultima.id = i /\ ~ultima.ok
        /\ ultima.op = "cancelar_cita"

(***************************************************************************)
(* C6: iniciar succeeds only on a Programada appointment and then sets the *)
(* state to En curso; on an appointment that is En curso, Completada or    *)
(* Cancelada it raises and the state stays as it was.                      *)
(***************************************************************************)
C6_Iniciar ==
    [][\A id \in Persistidas :
          Llamada("iniciar_cita", id) =>
             IF citas[id].estado = PROGRAMADA
             THEN ultima'.ok /\ citas'[id].estado = EN_CURSO
             ELSE ~ultima'.ok /\ citas'[id].estado = citas[id].estado]_vars

\* iniciar_cita was called on an appointment already En curso and raised
C6_Testigo ==
    \E i \in Persistidas :
        /\ citas[i].estado = EN_CURSO
        /\ ultima = Resultado("iniciar_cita", i, FALSE)

(***************************************************************************)
(* C7: completar on a Cancelada appointment raises whatever the diagnosis, *)
(* and cancelar on a Completada appointment raises whatever the reason; in *)
(* both cases state, diagnosis, treatment and cancellation reason stay.    *)
(***************************************************************************)
MismoResultadoClinico(antes, despues) ==
    /\ despues.estado = antes.estado
    /\ despues.diagnostico = antes.diagnostico
    /\ despues.tratamiento = antes.tratamiento
    /\ despues.motivo_cancelacion = antes.motivo_cancelacion

C7_CompletarCanceladaCancelarCompletada ==
    [][\A id \in Persistidas :
          /\ (Llamada("completar_cita", id) /\ citas[id].estado = CANCELADA) =>
                (~ultima'.ok /\ MismoResultadoClinico(citas[id], citas'[id]))
          /\ (Llamada("cancelar_cita", id) /\ citas[id].estado = COMPLETADA) =>
                (~ultima'.ok /\ MismoResultadoClinico(citas[id], citas'[id]))]_vars

\* completar_cita was just called on a cancelled appointment
C7_Testigo ==
    \E i \in Persistidas :
        /\ citas[i].estado = CANCELADA
        /\ ultima = Resultado("completar_cita", i, FALSE)

(***************************************************************************)
(* C8: completar with a valid diagnosis succeeds from Programada (without  *)
(* a prior iniciar) as well as from En curso, sets the state to Completada *)
(* and stores exactly the diagnosis and the treatment given.               *)
(***************************************************************************)
C8_CompletarDesdeProgramada ==
    [][\A id \in Persistidas :
          (Llamada("completar_cita", id) /\ citas[id].estado \in {PROGRAMADA, EN_CURSO}) =>
            \A d \in Diagnosticos, t \in Tratamientos :
                (TextoValido(d, 3) /\ completar_cita(id, d, t))
                => /\ ultima'.ok
                   /\ citas'[id].estado = COMPLETADA
                   /\ citas'[id].diagnostico = d
                   /\ citas'[id].tratamiento = t]_vars

\* an appointment has just been completed with a diagnosis and a treatment
C8_Testigo ==
    \E i \in Persistidas :
        /\ citas[i].estado = COMPLETADA
        /\ citas[i].diagnostico = DiagOk
        /\ citas[i].tratamiento = TratOk
        /\ ultima = Resultado("completar_cita", i, TRUE)

(***************************************************************************)
(* C9: completar with a diagnosis that is missing or shorter than 3        *)
(* characters after trimming raises from every state and leaves state and  *)
(* diagnosis as they were; so every Completada appointment has a diagnosis *)
(* of at least 3 characters.                                               *)
(***************************************************************************)
C9_DiagnosticoObligatorio ==
    /\ [][\A id \in Persistidas :
            Llamada("completar_cita", id) =>
              \A d \in Diagnosticos, t \in Tratamientos :
                  (~TextoValido(d, 3) /\ completar_cita(id, d, t))
                  => /\ ~ultima'.ok
                     /\ citas'[id].estado = citas[id].estado
                     /\ citas'[id].diagnostico = citas[id].diagnostico]_vars
    /\ [](\A i \in Persistidas :
            citas[i].estado = COMPLETADA => TextoValido(citas[i].diagnostico, 3))

\* completar_cita was just called on a Programada appointment and raised: the
\* only check that can raise there is the one on the diagnosis
C9_Testigo ==
    \E i \in Persistidas :
        /\ citas[i].estado = PROGRAMADA
        /\ ultima = Resultado("completar_cita", i, FALSE)

(***************************************************************************)
(* C10: every persisted Cancelada appointment carries a cancellation       *)
(* reason of at least 3 characters: only cancelar_cita moves an            *)
(* appointment to Cancelada, it succeeds only from Programada, En curso or *)
(* Cancelada with a reason of at least 3 characters, and stores it.        *)
(***************************************************************************)
C10_CanceladaConMotivo ==
    /\ [](\A i \in Persistidas :
            citas[i].estado = CANCELADA =>
                /\ citas[i].motivo_cancelacion # None
                /\ Len(citas[i].motivo_cancelacion) >= 3)
    /\ [][/\ \A id \in 1 .. Len(citas') :
               (/\ citas'[id].estado = CANCELADA
                /\ id \in Persistidas => citas[id].estado # CANCELADA)
               => ultima' = Resultado("cancelar_cita", id, TRUE)
          /\ \A id \in Persistidas :
               (Llamada("cancelar_cita", id) /\ ultima'.ok) =>
                 /\ citas[id].estado \in {PROGRAMADA, EN_CURSO, CANCELADA}
                 /\ citas'[id].estado = CANCELADA
                 /\ \A m \in MotivosCancelacion :
                      cancelar_cita(id, m) =>
                        /\ m # None /\ Len(m) >= 3
                        /\ citas'[id].motivo_cancelacion = m]_vars

\* an appointment has just been cancelled with a reason
C10_Testigo ==
    \E i \in Persistidas :
        /\ citas[i].estado = CANCELADA
        /\ citas[i].motivo_cancelacion = CancelOk
        /\ ultima = Resultado("cancelar_cita", i, TRUE)

C12_EstrictamenteFutura ==
    [][\A id \in Persistidas :
          Llamada("reprogramar_cita", id) =>
            \A h \in {x \in Horas : x <= ahora} :
                reprogramar_cita(id, h) =>
                  /\ ~ultima'.ok
                  /\ citas'[id].fecha_hora = citas[id].fecha_hora
                  /\ citas'[id].estado = citas[id].estado]_vars

(***************************************************************************)
(* C13: constructing or scheduling a new appointment (no id) whose start   *)
(* is before the current time raises and nothing is persisted; an          *)
(* appointment that has an id passes validation with a start in the past,  *)
(* so loading it, and iniciar, completar and cancelar on it, do not raise  *)
(* on the date.                                                            *)
(***************************************************************************)
C13_FechaFuturaSoloNuevas ==
    /\ [](\A h \in Horas : \A vet \in Veterinarios :
            h < ahora =>
              ~validar(NuevaCita(1, 1, vet, h, MotivoOk, DuracionDefecto, None, ahora),
                       ahora))
    /\ [](\A i \in Persistidas : validar(citas[i], ahora))
    /\ [][(ultima'.op = "agendar_cita" /\ ahora' = ahora) =>
            \A a \in {x \in LlamadasAgendar : x.fecha_hora < ahora} :
                EsAgendar(a) => (~ultima'.ok /\ citas' = citas)]_vars
    /\ [][\A id \in Persistidas :
            citas[id].fecha_hora < ahora =>
              /\ (Llamada("iniciar_cita", id) /\ citas[id].estado = PROGRAMADA)
                    => ultima'.ok
              /\ (Llamada("completar_cita", id)
                  /\ citas[id].estado \in {PROGRAMADA, EN_CURSO}) =>
                    \A d \in Diagnosticos, t \in Tratamientos :
                        (TextoValido(d, 3) /\ completar_cita(id, d, t)) => ultima'.ok
              /\ (Llamada("cancelar_cita", id) /\ citas[id].estado # COMPLETADA) =>
                    \A m \in MotivosCancelacion :
                        (TextoValido(m, 3) /\ cancelar_cita(id, m)) => ultima'.ok]_vars

\* an appointment whose start has passed has just been started
C13_Testigo ==
    \E i \in Persistidas :
        /\ citas[i].fecha_hora < ahora
        /\ citas[i].estado = EN_CURSO
        /\ ultima = Resultado("iniciar_cita", i, TRUE)

(***************************************************************************)
(* C14: agendar_cita persists an appointment only if, at the call, the     *)
(* client exists and is active, the pet exists and is active and the pet   *)
(* belongs to that client; when one of these fails the call raises and     *)
(* nothing is persisted, and a failing client check is the one reported    *)
(* whatever the pet.                                                       *)
(***************************************************************************)
ClienteAdmitido(cliente_id) ==
    cliente_id \in 1 .. Len(clientes) /\ clientes[cliente_id].activo

MascotaAdmitida(cliente_id, mascota_id) ==
    /\ mascota_id \in 1 .. Len(mascotas)
    /\ mascotas[mascota_id].activo
    /\ mascotas[mascota_id].cliente_id = cliente_id

C14_ClienteYMascota ==
    /\ [](\A a \in LlamadasAgendar :
            LET e == agendar_error(a.cliente_id, a.mascota_id,
                                   NuevaCita(a.cliente_id, a.mascota_id, a.vet,
                                             a.fecha_hora, a.motivo, a.dur, None, ahora))
            IN  /\ ~ClienteAdmitido(a.cliente_id) =>
                      e \in {"cliente no existe", "cliente inactivo"}
                /\ (ClienteAdmitido(a.cliente_id)
                    /\ ~MascotaAdmitida(a.cliente_id, a.mascota_id)) =>
                      e \in {"mascota no existe", "mascota inactiva",
                             "mascota de otro cliente"})
    /\ [][(ultima'.op = "agendar_cita" /\ ahora' = ahora) =>
            IF ultima'.ok
            THEN /\ Len(citas') = Len(citas) + 1
                 /\ ClienteAdmitido(citas'[Len(citas')].cliente_id)
                 /\ MascotaAdmitida(citas'[Len(citas')].cliente_id,
                                    citas'[Len(citas')].mascota_id)
                 /\ \A a \in {x \in LlamadasAgendar :
                                ~(/\ ClienteAdmitido(x.cliente_id)
                                  /\ MascotaAdmitida(x.cliente_id, x.mascota_id))} :
                       ~EsAgendar(a)
            ELSE citas' = citas]_vars

\* agendar_cita has just raised with nothing stored, in a registry that has an
\* inactive client, an inactive pet and a pet of another client to ask for
C14_Testigo ==
    /\ ultima = Resultado("agendar_cita", IdNone, FALSE)
    /\ citas = <<>>
    /\ \E c \in 1 .. Len(clientes) : ~clientes[c].activo
    /\ \E c \in 1 .. Len(clientes), m \in 1 .. Len(mascotas) :
          /\ clientes[c].activo
          /\ mascotas[m].activo
          /\ mascotas[m].cliente_id # c

(***************************************************************************)
(* C15: the conflict check ignores Cancelada appointments and only those:  *)
(* agendar_cita raises when a persisted Programada, En curso or Completada *)
(* appointment of the veterinarian overlaps the candidate, and a valid     *)
(* request that overlaps nothing but Cancelada appointments is booked.     *)
(***************************************************************************)
C15_IgnoraSoloCanceladas ==
    [][(ultima'.op = "agendar_cita" /\ ahora' = ahora) =>
          \A a \in LlamadasAgendar :
              EsAgendar(a) =>
                /\ Conflicto(a) => (~ultima'.ok /\ citas' = citas)
                /\ (SolicitudValida(a) /\ ~Conflicto(a)) =>
                      (ultima'.ok /\ Len(citas') = Len(citas) + 1)]_vars

(***************************************************************************)
(* C16: when reprogramar_cita finds a conflict at the new time (a not      *)
(* cancelled appointment of the veterinarian, other than the one moved,    *)
(* that starts on the date of the new time and overlaps it) the call       *)
(* raises and the stored appointment is not touched: start, state and      *)
(* fecha_modificacion, like every other column, are as before the call,    *)
(* also when the appointment was En curso.                                 *)
(***************************************************************************)
ConflictoAl(id, h) ==
    \E j \in Persistidas :
        /\ j # id
        /\ Vigente(citas[j])
        /\ MismoVeterinario(citas[j], citas[id])
        /\ Fecha(citas[j].fecha_hora) = Fecha(h)
        /\ citas[j].fecha_hora < h + citas[id].duracion_minutos
        /\ h < citas[j].fecha_hora + citas[j].duracion_minutos

C16_ConflictoNoToca ==
    [][\A id \in Persistidas :
          Llamada("reprogramar_cita", id) =>
            \A h \in {x \in Horas : ConflictoAl(id, x)} :
                reprogramar_cita(id, h) => (~ultima'.ok /\ citas' = citas)]_vars

\* reprogramar_cita has just raised on an En curso appointment for which some
\* hour that is not in the past is taken by another appointment
C16_Testigo ==
    \E i \in Persistidas :
        /\ ultima = Resultado("reprogramar_cita", i, FALSE)
        /\ citas[i].estado = EN_CURSO
        /\ \E h \in Horas : h >= ahora /\ ConflictoAl(i, h)

(***************************************************************************)
(* C17: the conflict check and the insert are not one atomic step: the     *)
(* insert of a request that passed its checks stores the appointment       *)
(* whatever was stored since, so requests for one veterinarian and         *)
(* overlapping times that interleave are both stored, and a state with two *)
(* not cancelled overlapping appointments of one veterinarian starting on  *)
(* the same date is reached.                                               *)
(***************************************************************************)
C17_InsertaSinComprobar ==
    [][\A k \in 1 .. Len(en_vuelo) :
          (/\ Len(en_vuelo') < Len(en_vuelo)
           /\ validar(en_vuelo[k], ahora)
           /\ agendar_cita_crear(k))
          => /\ ultima'.ok
             /\ citas' = Append(citas, [en_vuelo[k] EXCEPT !.id = Len(citas) + 1])]_vars

\* two not cancelled appointments of one veterinarian that start on the same
\* date and overlap are stored
C17_Testigo ==
    \E i, j \in Persistidas :
        /\ i # j
        /\ Vigente(citas[i]) /\ Vigente(citas[j])
        /\ MismoVeterinario(citas[i], citas[j])
        /\ Fecha(citas[i].fecha_hora) = Fecha(citas[j].fecha_hora)
        /\ Intersecan(citas[i], citas[j])

Facturadas == 1 .. Len(facturas)

(***************************************************************************)
(* C18: crear_factura_desde_cita raises unless the appointment is          *)
(* Completada (it raises for Programada, En curso and Cancelada), and      *)
(* every stored invoice names a stored appointment that is Completada and  *)
(* carries the client id of that appointment.                              *)
(***************************************************************************)
C18_FacturaSoloDeCompletada ==
    /\ [](\A k \in Facturadas :
            /\ facturas[k].cita_id \in Persistidas
            /\ citas[facturas[k].cita_id].estado = COMPLETADA
            /\ facturas[k].cliente_id = citas[facturas[k].cita_id].cliente_id)
    /\ [][\A id \in Persistidas :
            (Llamada("crear_factura_desde_cita", id) /\ citas[id].estado # COMPLETADA)
            => (~ultima'.ok /\ facturas' = facturas)]_vars

\* an invoice was asked for an En curso appointment and the call raised, while
\* another appointment has its invoice
C18_Testigo ==
    \E i \in Persistidas :
        /\ citas[i].estado = EN_CURSO
        /\ ultima = Resultado("crear_factura_desde_cita", i, FALSE)
        /\ facturas # <<>>

(***************************************************************************)
(* C19: with the calls served one at a time, at most one stored invoice    *)
(* names any appointment id: crear_factura_desde_cita for an appointment   *)
(* that already has an invoice raises and stores nothing.                  *)
(***************************************************************************)
C19_UnaFacturaPorCita ==
    /\ [](\A j, k \in Facturadas :
            j # k => facturas[j].cita_id # facturas[k].cita_id)
    /\ [][\A id \in Persistidas :
            (/\ Llamada("crear_factura_desde_cita", id)
             /\ \E k \in Facturadas : facturas[k].cita_id = id)
            => (~ultima'.ok /\ facturas' = facturas)]_vars

\* a second invoice was asked for an appointment that has one, and the call
\* raised
C19_Testigo ==
    \E i \in Persistidas :
        /\ ultima = Resultado("crear_factura_desde_cita", i, FALSE)
        /\ citas[i].estado = COMPLETADA
        /\ \E k \in Facturadas : facturas[k].cita_id = i

(***************************************************************************)
(* C20: with the calls served one at a time, the k-th stored invoice has   *)
(* the number F-2025- followed by k written with 5 digits, whatever calls  *)
(* raised in between (a call that raises stores nothing), so the numbers   *)
(* grow with the order of creation and no two invoices share one.          *)
(***************************************************************************)
\* k written with five decimal digits
CincoDigitos(k) == [i \in 1 .. 5 |-> Digitos[((k \div (10 ^ (5 - i))) % 10) + 1]]

C20_NumerosSecuenciales ==
    /\ [](\A k \in Facturadas :
            /\ facturas[k].id = k
            /\ facturas[k].numero_factura = PrefijoNumero \o CincoDigitos(k))
    /\ [](\A j, k \in Facturadas :
            j # k => facturas[j].numero_factura # facturas[k].numero_factura)
    /\ [][(ultima'.op = "crear_factura_desde_cita" /\ ahora' = ahora) =>
            IF ultima'.ok
            THEN /\ Len(facturas') = Len(facturas) + 1
                 /\ SubSeq(facturas', 1, Len(facturas)) = facturas
            ELSE facturas' = facturas]_vars

\* the second invoice has just been stored with the number F-2025-00002
C20_Testigo ==
    /\ Len(facturas) >= 2
    /\ facturas[2].numero_factura =
          <<"F", "-", "2", "0", "2", "5", "-", "0", "0", "0", "0", "2">>
    /\ ultima.op = "crear_factura_desde_cita" /\ ultima.ok

\* a line as the specification wants it: a concept of three characters or
\* more, a positive quantity, a price that is not negative, a tax in 0..100
LineaValida(l) ==
    /\ TextoValido(l.concepto, 3)
    /\ l.cantidad > 0
    /\ ~es_negativo(l.precio_unitario)
    /\ ~es_negativo(l.iva_porcentaje)
    /\ ~mayor_que(l.iva_porcentaje, Cien)

LineasRechazables(ld) == ld = <<>> \/ \E k \in 1 .. Len(ld) : ~LineaValida(ld[k])

(***************************************************************************)
(* C21: crear_factura_desde_cita with no lines, or with a line that is     *)
(* not valid (short concept, quantity not positive, negative price, tax    *)
(* outside 0..100), raises and stores nothing; every stored invoice has at *)
(* least one line and all its lines are valid.                             *)
(***************************************************************************)
C21_FacturaTodoONada ==
    /\ [](\A k \in Facturadas :
            /\ facturas[k].lineas # <<>>
            /\ \A j \in 1 .. Len(facturas[k].lineas) :
                    LineaValida(facturas[k].lineas[j]))
    /\ [][\A id \in CitaIds, ld \in {x \in LineasData : LineasRechazables(x)} :
            (/\ Llamada("crear_factura_desde_cita", id)
             /\ crear_factura_desde_cita(id, ld, None))
            => (~ultima'.ok /\ facturas' = facturas)]_vars

\* an invoice is stored, and the call for a Completada appointment that has
\* no invoice raised: its lines were refused
C21_Testigo ==
    \E i \in Persistidas :
        /\ citas[i].estado = COMPLETADA
        /\ \A k \in Facturadas : facturas[k].cita_id # i
        /\ ultima = Resultado("crear_factura_desde_cita", i, FALSE)
        /\ facturas # <<>>

PagoDe(k) == <<facturas[k].pagada, facturas[k].metodo_pago, facturas[k].fecha_pago>>

(***************************************************************************)
(* C22: marcar_como_pagada on an invoice that is paid raises whatever the  *)
(* method and the date given and leaves the paid flag, the method and the  *)
(* date as they were; an invoice that is paid stays paid with the same     *)
(* method and date.                                                        *)
(***************************************************************************)
C22_PagadaUnaVez ==
    /\ [][\A k \in Facturadas :
            (Llamada("marcar_como_pagada", k) /\ facturas[k].pagada)
            => (~ultima'.ok /\ facturas' = facturas)]_vars
    /\ [][\A k \in Facturadas :
            facturas[k].pagada
            => (Len(facturas') >= k /\ facturas'[k].pagada /\ PagoDe(k)' = PagoDe(k))]_vars

\* the payment of an invoice that is paid was refused
C22_Testigo ==
    \E k \in Facturadas :
        /\ facturas[k].pagada
        /\ ultima = Resultado("marcar_como_pagada", k, FALSE)

(***************************************************************************)
(* C23: every paid invoice has a payment date and a method among Efectivo, *)
(* Tarjeta and Transferencia, every unpaid invoice has neither;            *)
(* marcar_como_pagada with another method raises and leaves the invoice    *)
(* as it was, unpaid.                                                      *)
(***************************************************************************)
C23_PagoConFechaYMetodo ==
    /\ [](\A k \in Facturadas :
            IF facturas[k].pagada
            THEN facturas[k].fecha_pago # SinFecha /\ facturas[k].metodo_pago \in MetodosPago
            ELSE facturas[k].fecha_pago = SinFecha /\ facturas[k].metodo_pago = None)
    /\ [][\A id \in Facturadas, mp \in MetodosPedidos \ MetodosPago, fp \in FechasPago :
            (/\ Llamada("marcar_como_pagada", id)
             /\ ~facturas[id].pagada
             /\ FacturaService_marcar_como_pagada(id, mp, fp))
            => (~ultima'.ok /\ facturas' = facturas /\ ~facturas'[id].pagada)]_vars

\* the payment of an unpaid invoice was refused although no date a caller
\* gives is earlier than its issue: the method was refused
C23_Testigo ==
    \E k \in Facturadas :
        /\ ~facturas[k].pagada
        /\ \A fp \in FechasPago \ {SinFecha} : fp >= facturas[k].fecha_emision
        /\ ultima = Resultado("marcar_como_pagada", k, FALSE)

(***************************************************************************)
(* C24: the payment date of an invoice, when it has one, is not earlier    *)
(* than its issue date; marcar_como_pagada with an earlier date raises and *)
(* the invoice stays unpaid without date and method; with no date given    *)
(* the clock is taken and the payment with an accepted method goes         *)
(* through.                                                                *)
(***************************************************************************)
C24_PagoNoAnteriorAEmision ==
    /\ [](\A k \in Facturadas :
            facturas[k].fecha_pago # SinFecha
            => facturas[k].fecha_pago >= facturas[k].fecha_emision)
    /\ [][\A id \in Facturadas, mp \in MetodosPedidos, fp \in FechasPago \ {SinFecha} :
            (/\ Llamada("marcar_como_pagada", id)
             /\ ~facturas[id].pagada
             /\ fp < facturas[id].fecha_emision
             /\ FacturaService_marcar_como_pagada(id, mp, fp))
            => (/\ ~ultima'.ok
                /\ facturas' = facturas
                /\ PagoDe(id)' = <<FALSE, None, SinFecha>>)]_vars
    /\ [][\A id \in Facturadas, mp \in MetodosPago :
            (/\ Llamada("marcar_como_pagada", id)
             /\ ~facturas[id].pagada
             /\ FacturaService_marcar_como_pagada(id, mp, SinFecha))
            => (ultima'.ok /\ PagoDe(id)' = <<TRUE, mp, ahora>>)]_vars

\* the payment of an unpaid invoice issued after the earliest date a caller
\* gives was refused
C24_Testigo ==
    \E k \in Facturadas :
        /\ ~facturas[k].pagada
        /\ \E fp \in FechasPago \ {SinFecha} : fp < facturas[k].fecha_emision
        /\ ultima = Resultado("marcar_como_pagada", k, FALSE)

(***************************************************************************)
(* C25: agregar_linea and eliminar_linea on a paid invoice raise and leave *)
(* its lines as they were, so the lines of a paid invoice are, from then   *)
(* on, the lines it had when it was paid.                                  *)
(***************************************************************************)
C25_LineasCongeladas ==
    /\ [][\A op \in {"agregar_linea", "eliminar_linea"} :
            (objeto # SinObjeto /\ objeto.pagada /\ Llamada(op, IdNone))
            => (~ultima'.ok /\ objeto' = objeto)]_vars
    /\ [][(objeto # SinObjeto /\ objeto.pagada)
          => (objeto' # SinObjeto /\ objeto'.pagada /\ objeto'.lineas = objeto.lineas)]_vars

\* a line was offered to a paid invoice, which refused it
C25_Testigo ==
    /\ objeto # SinObjeto
    /\ objeto.pagada
    /\ ultima = Resultado("agregar_linea", IdNone, FALSE)

\* x / 100 as a number
Centesima(x) == Decimal(x.neg, x.dig, x.exp - 2)

(***************************************************************************)
(* C26: for every invoice, whatever valid lines it holds, calcular_total   *)
(* is exactly calcular_subtotal plus calcular_total_iva, and an invoice    *)
(* without lines has a subtotal, a tax and a total of 0.  The sum of the   *)
(* two is taken as the program itself adds them, which is the reading most *)
(* favourable to it.                                                       *)
(***************************************************************************)
C26_TotalEsSubtotalMasIva ==
    objeto # SinObjeto
    => /\ calcular_total(objeto)
            = sumar(calcular_subtotal(objeto), calcular_total_iva(objeto))
       /\ objeto.lineas = <<>>
            => /\ calcular_subtotal(objeto) = Cero
               /\ calcular_total_iva(objeto) = Cero
               /\ calcular_total(objeto) = Cero

(***************************************************************************)
(* C27: for every valid line, calcular_subtotal is cantidad times          *)
(* precio_unitario, calcular_iva is that subtotal times iva_porcentaje     *)
(* over 100, and calcular_total is their sum; 2 x 50.00 at 21% gives 100,  *)
(* 21 and 121.                                                             *)
(***************************************************************************)
C27_ImportesDeLinea ==
    objeto # SinObjeto
    => \A k \in 1 .. Len(objeto.lineas) :
          LET l == objeto.lineas[k]
          IN  /\ linea_calcular_subtotal(l)
                    = producto_exacto(DecimalDeEntero(l.cantidad), l.precio_unitario)
              /\ linea_calcular_iva(l)
                    = Centesima(producto_exacto(linea_calcular_subtotal(l),
                                                l.iva_porcentaje))
              /\ linea_calcular_total(l)
                    = suma_exacta(linea_calcular_subtotal(l), linea_calcular_iva(l))
              /\ l = LineaEjemplo
                    => /\ linea_calcular_subtotal(l) = DecimalDeEntero(100)
                       /\ linea_calcular_iva(l) = DecimalDeEntero(21)
                       /\ linea_calcular_total(l) = DecimalDeEntero(121)

\* the error kind the specification gives to each refusal of agendar_cita
ClaseDe(error) ==
    IF error \in {"cliente no existe", "mascota no existe"} THEN NotFoundError
    ELSE IF error = "cita no valida" THEN ValidationError
    ELSE BusinessRuleError

(***************************************************************************)
(* C28: a failure carries an error kind the caller can tell apart: an id   *)
(* that names nothing gives NotFoundError; a guard of the state machine, a *)
(* conflict of schedule or an inactive client or pet gives                 *)
(* BusinessRuleError; a field that is malformed or out of range gives      *)
(* ValidationError.                                                        *)
(***************************************************************************)
C28_ClasesDeError ==
    /\ [][\A op \in {"completar_cita", "cancelar_cita", "iniciar_cita", "reprogramar_cita"},
             id \in CitaIds \ Persistidas :
            Llamada(op, id) => ultima'.excepcion = NotFoundError]_vars
    /\ [][\A id \in Persistidas :
            (Llamada("completar_cita", id) /\ citas[id].estado = CANCELADA)
            => ultima'.excepcion = BusinessRuleError]_vars
    /\ [][\A a \in LlamadasAgendar :
            (Llamada("agendar_cita", IdNone) /\ EsAgendar(a))
            => ultima'.excepcion
                 = ClaseDe(agendar_error(a.cliente_id, a.mascota_id,
                                         NuevaCita(a.cliente_id, a.mascota_id, a.vet,
                                                   a.fecha_hora, a.motivo, a.dur,
                                                   None, ahora)))]_vars

\* at the start h the appointment id would intersect the interval it holds
SobreSiMisma(id, h) ==
    /\ h < citas[id].fecha_hora + citas[id].duracion_minutos
    /\ citas[id].fecha_hora < h + citas[id].duracion_minutos

\* at the start h the appointment id would intersect no other appointment of
\* its veterinarian that is not cancelled
LibreDeOtras(id, h) ==
    \A j \in Persistidas \ {id} :
        ~(/\ Vigente(citas[j])
          /\ MismoVeterinario(citas[j], citas[id])
          /\ citas[j].fecha_hora < h + citas[id].duracion_minutos
          /\ h < citas[j].fecha_hora + citas[j].duracion_minutos)

(***************************************************************************)
(* C30: reprogramar_cita does not count the appointment it moves among     *)
(* the conflicts: a Programada or En curso appointment moved to a future   *)
(* start whose interval intersects the interval it holds, and that of no   *)
(* other not cancelled appointment of its veterinarian, is stored with the *)
(* new start.                                                              *)
(***************************************************************************)
C30_NoChocaConsigoMisma ==
    [][\A id \in Persistidas :
          Llamada("reprogramar_cita", id) =>
            \A h \in {x \in Horas : /\ x > ahora
                                     /\ citas[id].estado \in {PROGRAMADA, EN_CURSO}
                                     /\ SobreSiMisma(id, x)
                                     /\ LibreDeOtras(id, x)} :
                reprogramar_cita(id, h) => (ultima'.ok /\ citas'[id].fecha_hora = h)]_vars

\* an appointment was moved to a start that is still to come; the hours it
\* can be moved between are less than its duration apart, so the new interval
\* intersects the one it held
C30_Testigo ==
    \E i \in Persistidas :
        /\ ultima = Resultado("reprogramar_cita", i, TRUE)
        /\ citas[i].fecha_hora > ahora
        /\ \A h \in HorasCiclo : SobreSiMisma(i, h)

\* the clients the table holds, and the client fields other than activo
Registrados == 1 .. Len(clientes)
SalvoActivo(c) == [c EXCEPT !.activo = TRUE]

(***************************************************************************)
(* C29: client records are never removed. In every state every client of   *)
(* the table is retrievable by its id; no step removes a client or gives   *)
(* it another id; dar_de_baja only sets the active flag of its client to   *)
(* false, and reactivar_cliente sets it to true and changes no other       *)
(* field.                                                                  *)
(***************************************************************************)
C29_ClientesNuncaBorrados ==
    /\ [](\A k \in Registrados :
            /\ obtener_cliente_por_id(k).found
            /\ ~obtener_cliente_por_id(k).raised
            /\ obtener_cliente_por_id(k).cliente.id = k)
    /\ [][/\ Len(clientes') >= Len(clientes)
          /\ \A k \in Registrados :
                /\ clientes'[k].id = clientes[k].id
                /\ clientes'[k].dni = clientes[k].dni
                /\ clientes'[k].fecha_registro = clientes[k].fecha_registro]_vars
    /\ [][\A k \in Registrados :
            Llamada("dar_de_baja", k)
            => (/\ Len(clientes') = Len(clientes)
                /\ ~clientes'[k].activo
                /\ SalvoActivo(clientes'[k]) = SalvoActivo(clientes[k])
                /\ \A j \in Registrados \ {k} : clientes'[j] = clientes[j])]_vars
    /\ [][\A k \in Registrados :
            Llamada("reactivar_cliente", k)
            => (/\ ultima'.ok
                /\ Len(clientes') = Len(clientes)
                /\ clientes'[k].activo
                /\ SalvoActivo(clientes'[k]) = SalvoActivo(clientes[k])
                /\ \A j \in Registrados \ {k} : clientes'[j] = clientes[j])]_vars

\* the client that was inactive at the start has been reactivated and the
\* client registered since has been deactivated and is still retrievable
C29_Testigo ==
    /\ ultima = Resultado("reactivar_cliente", 2, TRUE)
    /\ clientes[2].activo
    /\ Len(clientes) = MaxClientes
    /\ ~clientes[MaxClientes].activo
    /\ obtener_cliente_por_id(MaxClientes).found

(***************************************************************************)
(* C31: when reprogramar_cita fails because of a conflict (the appointment *)
(* is Programada or En curso, the new time is not in the past and another  *)
(* appointment holds it), the appointment the call holds in memory has,    *)
(* when the error is raised, the start and the state it had before the     *)
(* call, also when it was En curso.                                        *)
(***************************************************************************)
C31_RestauraEnMemoria ==
    [][\A id \in Persistidas :
          (Llamada("reprogramar_cita", id) /\ ~ultima'.ok
             /\ citas[id].estado \in {PROGRAMADA, EN_CURSO})
          => \A h \in {x \in Horas : x >= ahora /\ ConflictoAl(id, x)} :
                reprogramar_cita(id, h)
                => /\ reprogramar_cita_en_memoria(id, h).fecha_hora = citas[id].fecha_hora
                   /\ reprogramar_cita_en_memoria(id, h).estado = citas[id].estado]_vars

(***************************************************************************)
(* C32: iniciar_cita, completar_cita and cancelar_cita on an appointment   *)
(* that exists return exactly when the transition of the entity does not   *)
(* raise, whatever the other appointments hold and whether or not the      *)
(* client and the pet are active, and when they return the stored          *)
(* appointment has the new state.                                          *)
(***************************************************************************)
C32_TransicionYPersistir ==
    /\ [][\A id \in Persistidas :
            Llamada("iniciar_cita", id)
            => /\ ultima'.ok <=> ~iniciar(citas[id], ahora).raised
               /\ ultima'.ok => citas'[id].estado = EN_CURSO]_vars
    /\ [][\A id \in Persistidas :
            Llamada("completar_cita", id)
            => \A d \in Diagnosticos, t \in Tratamientos :
                  completar_cita(id, d, t)
                  => /\ ultima'.ok <=> ~completar(citas[id], d, t, ahora).raised
                     /\ ultima'.ok => citas'[id].estado = COMPLETADA]_vars
    /\ [][\A id \in Persistidas :
            Llamada("cancelar_cita", id)
            => \A mc \in MotivosCancelacion :
                  cancelar_cita(id, mc)
                  => /\ ultima'.ok <=> ~cancelar(citas[id], mc, ahora).raised
                     /\ ultima'.ok => citas'[id].estado = CANCELADA]_vars

\* an appointment whose client and pet have been deactivated, and whose
\* interval another appointment of the veterinarian overlaps, has just been
\* started
C32_Testigo ==
    \E i \in Persistidas, j \in Persistidas :
        /\ ultima = Resultado("iniciar_cita", i, TRUE)
        /\ citas[i].estado = EN_CURSO
        /\ ~clientes[citas[i].cliente_id].activo
        /\ ~mascotas[citas[i].mascota_id].activo
        /\ j # i
        /\ Vigente(citas[j])
        /\ MismoVeterinario(citas[i], citas[j])
        /\ Intersecan(citas[i], citas[j])

\* the request's interval meets a persisted, not cancelled appointment of its
\* veterinarian that starts on the calendar date of the request's start
ConflictoEnFecha(a) ==
    \E i \in Persistidas :
        /\ Vigente(citas[i])
        /\ citas[i].veterinario_nombre = a.vet
        /\ Fecha(citas[i].fecha_hora) = Fecha(a.fecha_hora)
        /\ citas[i].fecha_hora < a.fecha_hora + a.dur
        /\ a.fecha_hora < citas[i].fecha_hora + citas[i].duracion_minutos

(***************************************************************************)
(* C33: the conflict check of agendar_cita and of reprogramar_cita looks   *)
(* only at the appointments of the veterinarian that start on the calendar *)
(* date of the candidate's start: a request that is valid otherwise is     *)
(* refused exactly when one of those, not cancelled, overlaps it, and an   *)
(* appointment that starts on another date never makes it fail.            *)
(***************************************************************************)
C33_SoloLaMismaFecha ==
    /\ [][(ultima'.op = "agendar_cita" /\ ahora' = ahora) =>
            \A a \in {x \in LlamadasAgendar : SolicitudValida(x)} :
                EsAgendar(a) => (ultima'.ok <=> ~ConflictoEnFecha(a))]_vars
    /\ [][\A id \in Persistidas :
            (Llamada("reprogramar_cita", id)
               /\ citas[id].estado \in {PROGRAMADA, EN_CURSO})
            => \A h \in {x \in Horas : x >= ahora} :
                  reprogramar_cita(id, h) => (ultima'.ok <=> ~ConflictoAl(id, h))]_vars

\* the appointment just scheduled overlaps a not cancelled appointment of its
\* veterinarian that starts on another date
C33_Testigo ==
    \E i \in Persistidas, j \in Persistidas :
        /\ ultima = Resultado("agendar_cita", i, TRUE)
        /\ Vigente(citas[j])
        /\ MismoVeterinario(citas[i], citas[j])
        /\ Fecha(citas[j].fecha_hora) # Fecha(citas[i].fecha_hora)
        /\ Intersecan(citas[i], citas[j])

\* the calls of the services that name an appointment
LlamadasConCita ==
    {"iniciar_cita", "completar_cita", "cancelar_cita", "reprogramar_cita",
     "crear_factura_desde_cita"}

(***************************************************************************)
(* C34: iniciar_cita, completar_cita, cancelar_cita, reprogramar_cita and  *)
(* crear_factura_desde_cita with an id that names no appointment, and      *)
(* marcar_como_pagada with an id that names no invoice, raise as their     *)
(* outcome and leave the appointments and the invoices as they were: no    *)
(* row is created and none is changed.                                     *)
(***************************************************************************)
C34_IdDesconocido ==
    /\ [][\A op \in LlamadasConCita, id \in CitaIds \ Persistidas :
            Llamada(op, id)
            => (~ultima'.ok /\ citas' = citas /\ facturas' = facturas)]_vars
    /\ [][\A id \in FacturaIds \ Facturadas :
            Llamada("marcar_como_pagada", id)
            => (~ultima'.ok /\ citas' = citas /\ facturas' = facturas)]_vars

\* with an appointment and an invoice stored, an invoice has just been asked
\* for an appointment that does not exist
C34_Testigo ==
    /\ citas # <<>>
    /\ facturas # <<>>
    /\ ultima = Resultado("crear_factura_desde_cita", Len(citas) + 1, FALSE)

(***************************************************************************)
(* C35: a stored appointment has a diagnosis exactly when it is Completada *)
(* and a reason of cancellation exactly when it is Cancelada, so none has  *)
(* both.                                                                   *)
(***************************************************************************)
C35_DiagnosticoYMotivoSegunEstado ==
    \A i \in Persistidas :
        /\ ~Falsy(citas[i].diagnostico) <=> citas[i].estado = COMPLETADA
        /\ ~Falsy(citas[i].motivo_cancelacion) <=> citas[i].estado = CANCELADA
        /\ Falsy(citas[i].diagnostico) \/ Falsy(citas[i].motivo_cancelacion)

\* one appointment is Completada with its diagnosis and another is Cancelada
\* with its reason
C35_Testigo ==
    \E i \in Persistidas, j \in Persistidas :
        /\ citas[i].estado = COMPLETADA
        /\ citas[i].diagnostico = DiagOk
        /\ citas[j].estado = CANCELADA
        /\ citas[j].motivo_cancelacion = CancelOk

(***************************************************************************)
(* C36: completar_cita with a valid diagnosis on an appointment that is    *)
(* Completada returns: the appointment stays Completada and its diagnosis  *)
(* and treatment are those of the call, also when an invoice names the     *)
(* appointment; the invoices are left as they were.                        *)
(***************************************************************************)
C36_CompletarDeNuevo ==
    [][\A id \in Persistidas :
          (Llamada("completar_cita", id) /\ citas[id].estado = COMPLETADA) =>
            \A d \in Diagnosticos, t \in Tratamientos :
                (TextoValido(d, 3) /\ completar_cita(id, d, t))
                => /\ ultima'.ok
                   /\ citas'[id].estado = COMPLETADA
                   /\ citas'[id].diagnostico = d
                   /\ citas'[id].tratamiento = t
                   /\ facturas' = facturas]_vars

\* an appointment that has an invoice, and so was Completada before, has just
\* been completed and its treatment is the one of this call
C36_Testigo ==
    \E i \in Persistidas :
        /\ ultima = Resultado("completar_cita", i, TRUE)
        /\ \E k \in Facturadas : facturas[k].cita_id = i
        /\ citas[i].estado = COMPLETADA
        /\ citas[i].tratamiento = TratOk

\* the calls that move an appointment along its lifecycle, and the fields of
\* an appointment that none of them writes
LlamadasDeCiclo == {"iniciar_cita", "completar_cita", "cancelar_cita", "reprogramar_cita"}

Identidad(c) ==
    <<c.id, c.cliente_id, c.mascota_id, c.veterinario_nombre, c.duracion_minutos,
      c.motivo, c.fecha_creacion>>

(***************************************************************************)
(* C37: iniciar_cita, completar_cita, cancelar_cita and reprogramar_cita   *)
(* leave the id, the client, the pet, the veterinarian, the duration, the  *)
(* reason and the time of creation of every stored appointment as they     *)
(* were, and leave every appointment other than the one they name          *)
(* untouched; the start changes only in reprogramar_cita, and only that of *)
(* the appointment it names.                                               *)
(***************************************************************************)
C37_Marco ==
    [][\A op \in LlamadasDeCiclo, id \in CitaIds :
          Llamada(op, id)
          => /\ Len(citas') = Len(citas)
             /\ \A k \in Persistidas :
                   /\ Identidad(citas'[k]) = Identidad(citas[k])
                   /\ k # id => citas'[k] = citas[k]
                   /\ op # "reprogramar_cita"
                      => citas'[k].fecha_hora = citas[k].fecha_hora]_vars

\* beside another appointment, an appointment has just been moved, some time
\* after it was created
C37_Testigo ==
    \E i \in Persistidas, j \in Persistidas :
        /\ j # i
        /\ ultima = Resultado("reprogramar_cita", i, TRUE)
        /\ citas[i].fecha_creacion < ahora
        /\ citas[i].fecha_modificacion = ahora

(***************************************************************************)
(* C38: for every stored appointment the client and the pet it names exist *)
(* and the pet belongs to that client; no update, deactivation or          *)
(* reactivation of a client or a pet removes a client or a pet or changes  *)
(* the owner of a pet.                                                     *)
(***************************************************************************)
C38_TitularesDeLaCita ==
    /\ [](\A i \in Persistidas :
            /\ existe_cliente(citas[i].cliente_id)
            /\ existe_mascota(citas[i].mascota_id)
            /\ mascotas[citas[i].mascota_id].cliente_id = citas[i].cliente_id)
    /\ [][/\ Len(clientes') >= Len(clientes)
          /\ Len(mascotas') >= Len(mascotas)
          /\ \A k \in 1 .. Len(clientes) : clientes'[k].id = k
          /\ \A k \in 1 .. Len(mascotas) :
                /\ mascotas'[k].id = k
                /\ mascotas'[k].cliente_id = mascotas[k].cliente_id]_vars

\* the pet of the stored appointment has just been renamed, in a call that
\* named another client for it, and its client, reactivated before the
\* appointment was made, is inactive again
C38_Testigo ==
    \E i \in Persistidas :
        /\ ultima = Resultado("actualizar_mascota", citas[i].mascota_id, TRUE)
        /\ citas[i].cliente_id = 2
        /\ mascotas[citas[i].mascota_id].nombre = NombreLuna
        /\ ~clientes[citas[i].cliente_id].activo

(***************************************************************************)
(* C39: the generation of the invoice number and the insert are not one    *)
(* step.  A request that passes its checks takes the successor of the last *)
(* invoice stored at that moment, whatever the requests that have still to *)
(* insert hold, so two interleaved requests hold the same number, for the  *)
(* same appointment too; and the insert looks for nothing again: the       *)
(* invoice is stored as it was built unless the table holds its number,    *)
(* and then it is the commit, with IntegrityError, that refuses it.        *)
(***************************************************************************)
NumeroLibre(numero) == \A j \in Facturadas : facturas[j].numero_factura # numero

C39_NumeroNoAtomico ==
    /\ [][Len(en_vuelo') = Len(en_vuelo) + 1 =>
              LET f == en_vuelo'[Len(en_vuelo')]
              IN  /\ SubSeq(en_vuelo', 1, Len(en_vuelo)) = en_vuelo
                  /\ f.numero_factura = PrefijoNumero \o CincoDigitos(Len(facturas) + 1)
                  /\ citas[f.cita_id].estado = COMPLETADA
                  /\ \A j \in Facturadas : facturas[j].cita_id # f.cita_id
                  /\ facturas' = facturas]_vars
    /\ [][Len(en_vuelo') + 1 = Len(en_vuelo) =>
              \E k \in 1 .. Len(en_vuelo) :
                  /\ en_vuelo' = SinElemento(en_vuelo, k)
                  /\ ultima'.op = "crear_factura_desde_cita"
                  /\ ultima'.id = en_vuelo[k].cita_id
                  /\ IF NumeroLibre(en_vuelo[k].numero_factura)
                     THEN /\ ultima'.ok
                          /\ facturas' = Append(facturas,
                                                [en_vuelo[k] EXCEPT !.id = Len(facturas) + 1])
                     ELSE /\ ultima'.excepcion = IntegrityError
                          /\ facturas' = facturas]_vars

\* two requests have passed the checks for the same appointment and hold the
\* same number
C39_Testigo ==
    \E k \in 1 .. Len(en_vuelo), l \in 1 .. Len(en_vuelo) :
        /\ k < l
        /\ en_vuelo[k].numero_factura = en_vuelo[l].numero_factura
        /\ en_vuelo[k].cita_id = en_vuelo[l].cita_id

====
